---- MODULE Spec2Model ----
(***************************************************************************)
(* Weather acquisition and fusion subsystem of the weather-orchestrator    *)
(* service: fusion of provider records (mergeWeatherData), the Redis       *)
(* backed rate limiter (RateLimiter.checkRateLimit over RedisClient) and   *)
(* the acquisition controller (getWeatherForPoint, getWeatherForWaypoints, *)
(* POST /weather-for-route).                                               *)
(*                                                                         *)
(* Numbers: confidences are in hundredths (0.75 is 75); time is counted in *)
(* ticks of 30 minutes (1800 s), so the cache TTL of 1800 s is 1 tick and  *)
(* the rate-limit window and the hour bucket of 3600 s are 2 ticks.        *)
(***************************************************************************)
EXTENDS Integers, Sequences, FiniteSets, TLC

VARIABLES
    mSources,     \* mergeWeatherData: the `sources` argument
    mResult,      \* mergeWeatherData: <<>> before the call, <<merged>> after
    isConnected,  \* RedisClient.isConnected (this.client is set by the constructor)
    rlCount,      \* store: value of ratelimit:{provider}:global, 0 when the key is absent
    rlTtl,        \* store: its time to live in ticks; NoExpiry without one, KeyAbsent when absent
    callers,      \* the checkRateLimit calls in progress, one slot per concurrent request
    checksInWindow, \* per provider: calls in the open window whose INCR reached the store
    grantsInWindow, \* per provider: calls served by the store in the open window that returned allowed
    checksLeft,   \* how many more checkRateLimit calls the requests will issue
    answer,       \* the call that returned last: <<>> or <<its caller record>>
    apiKey,       \* per provider: whether its API key is configured (provider.apiKey)
    cache,        \* store: weather:{provider}:{lat}:{lon}:{hour} -> <<>> or <<record>>
    cacheTtl,     \* store: time to live of each cache entry in ticks, KeyAbsent when absent
    stats,        \* store: api_stats:{provider}:{hour} -> <<>> or <<[calls, successes, errors]>>
    rt,           \* the route request in progress: position, locals and response
    queryAge,     \* per cache key: ticks since the adapter was last invoked for it, -1 if not within the TTL
    rkResults,    \* identifyRisks: the `weatherResults` argument
    rkRisks,      \* identifyRisks: <<>> before the call, <<risks>> after
    st,           \* the RateLimiter.getStatus call in progress: position, locals and result
    keys,         \* the cache keys derived for a pair of point requests: <<>> before, <<[...]>> after
    bot,          \* telegram-bot rateLimiter: its store keys and the requests in the middleware
    ad,           \* a provider adapter's getWeatherForPoint call: position, locals and result
    gpx,          \* GPXParser.extractWaypoints: the track, the loop position and the waypoints
    lg,           \* the logApiCall calls in progress, one slot per concurrent request
    redis,        \* RedisClient.client, the ioredis instance: its status and the commands it was sent
    preq,         \* the POST /weather-for-point request in progress: body, position and response
    writeAge      \* per cache key: ticks since a record was last written to the cache for it, -1 if not within the TTL

mergeVars == <<mSources, mResult>>
limiterVars == <<isConnected, rlCount, rlTtl, callers, grantsInWindow, checksInWindow, checksLeft, answer>>
acqVars == <<apiKey, cache, cacheTtl, stats, rt, queryAge, writeAge>>
riskVars == <<rkResults, rkRisks>>
statusVars == <<st>>
moreVars == <<gpx, lg, preq, redis>>
auxVars == <<keys, bot, ad, moreVars>>
vars == <<mSources, mResult, isConnected, rlCount, rlTtl, callers, grantsInWindow, checksInWindow, checksLeft,
          answer, apiKey, cache, cacheTtl, stats, rt, queryAge, writeAge, rkResults, rkRisks, st,
          keys, bot, ad, gpx, lg, preq, redis>>

(***************************************************************************)
(* Values                                                                  *)
(***************************************************************************)
\* JavaScript null and NaN in a numeric field
Null == -999
NaN == -998

\* a field that holds a number a comparison can succeed on
IsNumber(x) == x # Null /\ x # NaN

\* a plausible slip: the regional source is asked first
providerPriorityRegionalFirst == <<"aemet", "meteoblue", "windy", "meteored">>

\* providerPriority, the order getWeatherForPoint walks the providers in
providerPriority == <<"meteoblue", "aemet", "windy", "meteored">>

Providers == {providerPriority[i] : i \in 1..Len(providerPriority)}

\* a plausible slip: the weights are the wrong way round
priorityReversed == [meteoblue |-> 1, aemet |-> 2, windy |-> 3, meteored |-> 4]

\* mergeWeatherData: const priority = { meteoblue: 4, aemet: 3, windy: 2, meteored: 1 }
priority == [meteoblue |-> 4, aemet |-> 3, windy |-> 2, meteored |-> 1]

(***************************************************************************)
(* Provider records.  Every adapter's parseResponse returns the same       *)
(* eleven fields; `confidence` is the adapter's own score.                 *)
(***************************************************************************)
\* the confidences each adapter's calculateConfidence can return (sampled)
ProviderConfidences ==
    [meteoblue |-> {95, 50}, aemet |-> {80}, windy |-> {90, 45}, meteored |-> {75, 35}]

\* the weather readings the model draws upstream answers from
Readings ==
    { [temperature |-> 10, windSpeed |-> 10, windDirection |-> 180, precipitation |-> 0],
      [temperature |-> 16, windSpeed |-> 30, windDirection |-> 90,  precipitation |-> 6] }

ProviderRecord(p, r, c) ==
    [temperature |-> r.temperature, windSpeed |-> r.windSpeed,
     windDirection |-> r.windDirection, precipitation |-> r.precipitation,
     humidity |-> Null, pressure |-> Null, cloudCover |-> Null, visibility |-> Null,
     timestamp |-> 0, provider |-> p, confidence |-> c]

RecordsOf(p) == {ProviderRecord(p, r, c) : r \in Readings, c \in ProviderConfidences[p]}

(***************************************************************************)
(* mergeWeatherData                                                        *)
(***************************************************************************)
\* Array.prototype.sort with (a, b) => priority[b.provider] - priority[a.provider]:
\* a stable sort, descending by priority (insertion of each element after the
\* elements that do not come after it)
RECURSIVE InsertByPriority(_, _)
InsertByPriority(s, x) ==
    IF s = <<>> THEN <<x>>
    ELSE IF priority[Head(s).provider] >= priority[x.provider]
         THEN <<Head(s)>> \o InsertByPriority(Tail(s), x)
         ELSE <<x>> \o s

RECURSIVE SortLeft(_, _)
SortLeft(done, rest) ==
    IF rest = <<>> THEN done
    ELSE SortLeft(InsertByPriority(done, Head(rest)), Tail(rest))

\* a plausible slip: the list is used in arrival order
SortByPriorityUnsorted(sources) == sources

SortByPriority(sources) == SortLeft(<<>>, sources)

\* calculateConfidence(sources), by the number of sources
calculateConfidence(n) ==
    IF n = 1 THEN 75
    ELSE IF n = 2 THEN 85
    ELSE IF n >= 3 THEN 95
    ELSE 50

\* Object.assign(target, source): every own key of source overwrites target's
ObjectAssign(target, source) ==
    [k \in (DOMAIN target) \cup (DOMAIN source) |->
        IF k \in DOMAIN source THEN source[k] ELSE target[k]]

Max(S) == CHOOSE x \in S : \A y \in S : y <= x
Min(S) == CHOOSE x \in S : \A y \in S : x <= y

\* a plausible slip: a range of exactly 5 already warns
TempRangeExceedsInclusive(tempRange) == tempRange >= 5

\* if (tempRange > 5)
TempRangeExceeds(tempRange) == tempRange > 5

\* a plausible slip: a range of exactly 15 already warns
WindRangeExceedsInclusive(windRange) == windRange >= 15

\* if (windRange > 15)
WindRangeExceeds(windRange) == windRange > 15

\* detectWeatherInconsistencies(merged, sources): the warnings it pushes
\* ("temperature" for a range above 5, then "wind" for a range above 15)
detectWeatherInconsistencies(sources) ==
    LET temperatures == {sources[i].data.temperature : i \in 1..Len(sources)} \ {Null}
        nTemps == Cardinality({i \in 1..Len(sources) : sources[i].data.temperature # Null})
        windSpeeds == {sources[i].data.windSpeed : i \in 1..Len(sources)} \ {Null}
        nWinds == Cardinality({i \in 1..Len(sources) : sources[i].data.windSpeed # Null})
        tempWarn == IF Len(sources) >= 2 /\ nTemps >= 2 /\ NaN \notin temperatures
                       /\ TempRangeExceeds(Max(temperatures) - Min(temperatures))
                    THEN <<[kind |-> "temperature",
                            range |-> Max(temperatures) - Min(temperatures)]>>
                    ELSE <<>>
        windWarn == IF Len(sources) >= 2 /\ nWinds >= 2 /\ NaN \notin windSpeeds
                       /\ WindRangeExceeds(Max(windSpeeds) - Min(windSpeeds))
                    THEN <<[kind |-> "wind",
                            range |-> Max(windSpeeds) - Min(windSpeeds)]>>
                    ELSE <<>>
    IN  tempWarn \o windWarn

\* mergeWeatherData(sources); sources is a non-empty list of
\* [provider, data, cached].  sort() sorts in place, so `sources` and
\* `sortedSources` are the same sorted array from line 262 on.
mergeWeatherData(sources) ==
    LET sortedSources == SortByPriority(sources)
        merged == [temperature |-> Null, windSpeed |-> Null, windDirection |-> Null,
                   precipitation |-> Null, humidity |-> Null, pressure |-> Null,
                   cloudCover |-> Null, visibility |-> Null,
                   sources |-> [i \in 1..Len(sortedSources) |-> sortedSources[i].provider],
                   primary |-> sortedSources[1].provider,
                   confidence |-> calculateConfidence(Len(sortedSources)),
                   warnings |-> <<>>]
        primaryData == sortedSources[1].data
        assigned == ObjectAssign(merged, primaryData)
    IN  IF Len(sortedSources) > 1
        THEN [assigned EXCEPT !.warnings = detectWeatherInconsistencies(sortedSources)]
        ELSE assigned

(***************************************************************************)
(* Points, timestamps and cache keys                                       *)
(***************************************************************************)
\* coordinates are in 1/10000 degree, timestamps in minutes
Madrid == [lat |-> 404168, lon |-> -37038]
MadridNear == [lat |-> 404171, lon |-> -37041]
Paris == [lat |-> 488566, lon |-> 23522]
Points == {Madrid, MadridNear, Paris}

\* estimatedTimeFromStart of a waypoint, in minutes
Offsets == {0, 60}

\* a waypoints element that is JSON null
NullWaypoint == [isNull |-> TRUE]

\* a waypoint of req.body.waypoints
W(pt, m) == [lat |-> pt.lat, lon |-> pt.lon, estimatedTimeFromStart |-> m]

\* x.toFixed(3) for x in 1/10000 degree: the string's sign and its digits as
\* thousandths.  toFixed writes the "-" of every x < 0 before it rounds, so
\* (-0.0001).toFixed(3) is "-0.000" and (0.0001).toFixed(3) is "0.000"
ToFixed3(x) == IF x >= 0 THEN <<"", (x + 5) \div 10>> ELSE <<"-", (-x + 5) \div 10>>

\* Math.floor(timestamp.getTime() / 3600000)
HourMinutes == 60
HourBucket(ts) == ts \div HourMinutes

\* `weather:${providerName}:${point.lat.toFixed(3)}:${point.lon.toFixed(3)}:${hour}`
cacheKey(providerName, point, ts) ==
    <<providerName, ToFixed3(point.lat), ToFixed3(point.lon), HourBucket(ts)>>

CacheKeys == {cacheKey(p, pt, m) : p \in Providers, pt \in Points, m \in Offsets}

\* RedisClient.setex(cacheKey, 1800, ...): 1800 s, in ticks
CacheTtlTicks == 1

\* JSON.parse(JSON.stringify(record)): numbers, strings and nulls come back as
\* they went in; NaN comes back as null
JsonRoundTrip(record) ==
    [f \in DOMAIN record |->
        IF f # "provider" /\ record[f] = NaN THEN Null ELSE record[f]]

(***************************************************************************)
(* Provider adapters, as seen by the controller                            *)
(***************************************************************************)
\* AemetProvider.isSpanishTerritory(lat, lon)
isSpanishTerritory(point) ==
    /\ point.lat >= 270000 /\ point.lat <= 440000
    /\ point.lon >= -180000 /\ point.lon <= 50000

\* the ways an adapter call fails after its upstream call was issued
UpstreamFailures == {"RateLimited", "Timeout", "MalformedResponse"}

\* a plausible slip: the territory check is missing
CoversEverywhere(p, point) == TRUE

\* whether the adapter of p issues an upstream call for the point
\* (AemetProvider.getWeatherForPoint throws before it outside the territory)
Covers(p, point) == p # "aemet" \/ isSpanishTerritory(point)

\* what the upstream of p forecasts for a point and time
UpstreamReading ==
    [meteoblue |-> [temperature |-> 10, windSpeed |-> 45, windDirection |-> 180, precipitation |-> 2],
     aemet     |-> [temperature |-> 16, windSpeed |-> 30, windDirection |-> 90,  precipitation |-> 0],
     windy     |-> [temperature |-> 12, windSpeed |-> 20, windDirection |-> 45,  precipitation |-> 6],
     meteored  |-> [temperature |-> 11, windSpeed |-> 12, windDirection |-> 0,   precipitation |-> 0]]

\* the record parseResponse returns for the upstream answer
AdapterRecord(p, point, ts) ==
    [ProviderRecord(p, UpstreamReading[p], Max(ProviderConfidences[p]))
        EXCEPT !.timestamp = ts,
               !.temperature = IF isSpanishTerritory(point) THEN @ ELSE @ - 3]

(***************************************************************************)
(* The store (RedisClient) and the rate limiter (RateLimiter)              *)
(***************************************************************************)
\* RateLimiter.limits: hourly maxima 200 (meteoblue) < 300 (meteored) <
\* 400 (windy) < 500 (aemet), scaled down to LimitBase .. LimitBase + 3 so
\* that a window can be exhausted; window 3600 s
LimitBase == 1
WindowTicks == 2

limits ==
    [meteoblue |-> [max |-> LimitBase,     window |-> WindowTicks],
     aemet     |-> [max |-> LimitBase + 3, window |-> WindowTicks],
     windy     |-> [max |-> LimitBase + 2, window |-> WindowTicks],
     meteored  |-> [max |-> LimitBase + 1, window |-> WindowTicks]]

\* the checkRateLimit calls the concurrent requests issue in one run
MaxChecks == 3

\* concurrent requests that may each have one checkRateLimit call in progress
NumCallers == 2
Callers == 1..NumCallers

\* Redis TTL replies: -1 for a key without expiry, -2 for a missing key
NoExpiry == -1
KeyAbsent == -2

IdleCaller ==
    [pc |-> "idle", api |-> "meteoblue", current |-> 0, served |-> FALSE,
     fresh |-> FALSE, allowed |-> FALSE]

\* no route request
NoRoute == [pc |-> "none"]

InitStore ==
    /\ isConnected = FALSE
    /\ rlCount = [p \in Providers |-> 0]
    /\ rlTtl = [p \in Providers |-> KeyAbsent]
    /\ cache = [k \in CacheKeys |-> <<>>]
    /\ cacheTtl = [k \in CacheKeys |-> KeyAbsent]
    /\ stats = [p \in Providers |-> <<>>]
    /\ queryAge = [k \in CacheKeys |-> -1]
    /\ writeAge = [k \in CacheKeys |-> -1]

\* no getStatus call
IdleStatus == [pc |-> "idle"]

\* identifyRisks not called, no status query
InitQueries ==
    /\ rkResults = <<>>
    /\ rkRisks = <<>>
    /\ st = IdleStatus

\* no key derived, the bot's middleware not running, no adapter call
NoKeys == [pc |-> "none"]
NoBot == [pc |-> "none"]
NoAdapterCall == [pc |-> "none"]

\* no track is being sampled, no logApiCall is running, no point request
\* has arrived
NoTrack == [pc |-> "none"]
NoLoggers == [pc |-> "none"]
NoPointRequest == [pc |-> "none"]

\* the ioredis instance is not followed
NoClient == [status |-> "none"]

InitMore ==
    /\ gpx = NoTrack
    /\ lg = NoLoggers
    /\ preq = NoPointRequest
    /\ redis = NoClient

InitAux ==
    /\ keys = NoKeys
    /\ bot = NoBot
    /\ ad = NoAdapterCall
    /\ InitMore

InitCallers ==
    /\ callers = [c \in Callers |-> IdleCaller]
    /\ grantsInWindow = [p \in Providers |-> 0]
    /\ checksInWindow = [p \in Providers |-> 0]
    /\ checksLeft = MaxChecks
    /\ answer = <<>>

\* a plausible slip: a command issued without the isAvailable() guard
ReachesUnguarded(ok) == ok

\* RedisClient.isAvailable(), with a command that may still fail (the catch
\* branches of get/set/incr/expire): ok says whether the command goes through
Reaches(ok) == isConnected /\ ok

\* client.on('connect')
OnConnect ==
    /\ ~isConnected
    /\ isConnected' = TRUE
    /\ UNCHANGED <<mergeVars, riskVars, statusVars, auxVars, acqVars, rlCount, rlTtl, callers, grantsInWindow, checksInWindow, checksLeft, answer>>

\* client.on('error') / client.on('close')
OnClose ==
    /\ isConnected
    /\ isConnected' = FALSE
    /\ UNCHANGED <<mergeVars, riskVars, statusVars, auxVars, acqVars, rlCount, rlTtl, callers, grantsInWindow, checksInWindow, checksLeft, answer>>

\* the providers whose window the calls of one run can exhaust
Exhaustible == {p \in Providers : limits[p].max < MaxChecks}

\* a request reaches `await rateLimiter.checkRateLimit(providerName)`
CallCheckRateLimit(c, p) ==
    /\ callers[c].pc = "idle"
    /\ p \in Exhaustible
    /\ checksLeft > 0
    /\ checksLeft' = checksLeft - 1
    /\ callers' = [callers EXCEPT ![c] = [IdleCaller EXCEPT !.pc = "incr", !.api = p]]
    /\ UNCHANGED <<mergeVars, riskVars, statusVars, auxVars, acqVars, isConnected, rlCount, rlTtl, grantsInWindow, checksInWindow, answer>>

\* a plausible slip: a fallback that fails closed
RedisIncrFallbackClosed == LimitBase + 4

\* RedisClient.incr: `return 1` when the store is not available or the command fails
RedisIncrFallback == 1

\* const current = await RedisClient.incr(key): INCR creates a missing key
\* (without expiry) and is atomic in the store
CheckIncr(c) ==
    /\ callers[c].pc = "incr"
    /\ \E ok \in BOOLEAN :
        LET p == callers[c].api IN
        IF Reaches(ok)
        THEN /\ rlCount' = [rlCount EXCEPT ![p] = @ + 1]
             /\ checksInWindow' = [checksInWindow EXCEPT ![p] = @ + 1]
             /\ rlTtl' = [rlTtl EXCEPT ![p] = IF rlCount[p] = 0 THEN NoExpiry ELSE @]
             /\ callers' = [callers EXCEPT ![c].current = rlCount[p] + 1,
                                           ![c].served = TRUE,
                                           ![c].fresh = TRUE,
                                           ![c].pc = IF rlCount[p] + 1 = 1
                                                     THEN "expire" ELSE "decide"]
        ELSE /\ callers' = [callers EXCEPT ![c].current = RedisIncrFallback,
                                           ![c].pc = "expire"]
             /\ UNCHANGED <<rlCount, rlTtl, checksInWindow>>
    /\ UNCHANGED <<mergeVars, riskVars, statusVars, auxVars, acqVars, isConnected, grantsInWindow, checksLeft, answer>>

\* if (current === 1) await RedisClient.expire(key, limit.window): EXPIRE sets
\* the time to live of an existing key; not available or failing, it does nothing
CheckExpire(c) ==
    /\ callers[c].pc = "expire"
    /\ \E ok \in BOOLEAN :
        LET p == callers[c].api IN
        /\ rlTtl' = IF Reaches(ok) /\ rlCount[p] > 0
                    THEN [rlTtl EXCEPT ![p] = limits[p].window]
                    ELSE rlTtl
    /\ callers' = [callers EXCEPT ![c].pc = "decide"]
    /\ UNCHANGED <<mergeVars, riskVars, statusVars, auxVars, acqVars, isConnected, rlCount, grantsInWindow, checksInWindow, checksLeft, answer>>

\* a plausible slip: an off-by-one in the comparison
ExceedsOffByOne(current, max) == current > max + 1

\* if (current > limit.max)
Exceeds(current, max) == current > max

\* a plausible slip: a denied call takes its increment back
AfterDenialRolledBack(count) == IF count > 0 THEN count - 1 ELSE count

\* `return false` leaves the counter as INCR left it (no DECR)
AfterDenial(count) == count

\* the rest of checkRateLimit: return false (after reading the TTL for the log)
\* when the counter exceeds the maximum, return true otherwise
CheckReturn(c) ==
    /\ callers[c].pc = "decide"
    /\ LET p == callers[c].api
           ok == ~Exceeds(callers[c].current, limits[p].max)
       IN /\ callers' = [callers EXCEPT ![c] = IdleCaller]
          /\ answer' = <<[callers[c] EXCEPT !.allowed = ok, !.pc = "returned"]>>
          /\ grantsInWindow' =
                IF ok /\ callers[c].served /\ callers[c].fresh
                THEN [grantsInWindow EXCEPT ![p] = @ + 1]
                ELSE grantsInWindow
          /\ rlCount' = IF ok THEN rlCount ELSE [rlCount EXCEPT ![p] = AfterDenial(@)]
    /\ UNCHANGED <<mergeVars, riskVars, statusVars, auxVars, acqVars, isConnected, rlTtl, checksLeft,
                   checksInWindow>>

\* a tick of time in the store: times to live run down and a key whose time
\* is up is deleted, which closes the provider's window
Expiring(p) == rlTtl[p] = 1

\* an age that runs up to the cache TTL and is then forgotten
Aged(a) == IF a = -1 \/ a + 1 >= CacheTtlTicks THEN -1 ELSE a + 1

StoreTick ==
    /\ \/ \E p \in Providers : rlTtl[p] > 0
       \/ \E k \in CacheKeys : cacheTtl[k] > 0 \/ queryAge[k] >= 0 \/ writeAge[k] >= 0
    /\ rlTtl' = [p \in Providers |->
                    IF Expiring(p) THEN KeyAbsent
                    ELSE IF rlTtl[p] > 1 THEN rlTtl[p] - 1 ELSE rlTtl[p]]
    /\ rlCount' = [p \in Providers |-> IF Expiring(p) THEN 0 ELSE rlCount[p]]
    /\ grantsInWindow' = [p \in Providers |-> IF Expiring(p) THEN 0 ELSE grantsInWindow[p]]
    /\ checksInWindow' = [p \in Providers |-> IF Expiring(p) THEN 0 ELSE checksInWindow[p]]
    /\ callers' = [c \in Callers |->
                    IF Expiring(callers[c].api)
                    THEN [callers[c] EXCEPT !.fresh = FALSE] ELSE callers[c]]
    /\ cacheTtl' = [k \in CacheKeys |->
                    IF cacheTtl[k] = 1 THEN KeyAbsent
                    ELSE IF cacheTtl[k] > 1 THEN cacheTtl[k] - 1 ELSE cacheTtl[k]]
    /\ cache' = [k \in CacheKeys |-> IF cacheTtl[k] = 1 THEN <<>> ELSE cache[k]]
    /\ queryAge' = [k \in CacheKeys |-> Aged(queryAge[k])]
    /\ writeAge' = [k \in CacheKeys |-> Aged(writeAge[k])]
    /\ UNCHANGED <<mergeVars, riskVars, statusVars, auxVars, apiKey, stats, rt, isConnected, checksLeft, answer>>

InitLimiter ==
    /\ mSources = <<>>
    /\ mResult = <<>>
    /\ InitStore
    /\ InitCallers
    /\ InitQueries
    /\ InitAux
    /\ apiKey = [p \in Providers |-> TRUE]
    /\ rt = NoRoute

NextLimiter ==
    \/ OnConnect
    \/ OnClose
    \/ StoreTick
    \/ \E c \in Callers, p \in Providers : CallCheckRateLimit(c, p)
    \/ \E c \in Callers : CheckIncr(c)
    \/ \E c \in Callers : CheckExpire(c)
    \/ \E c \in Callers : CheckReturn(c)

SpecLimiter == InitLimiter /\ [][NextLimiter]_vars

\* the scheduling the limiter relies on: time passes in the store, and every
\* call in progress is resumed after each await
FairSpecLimiter ==
    /\ SpecLimiter
    /\ WF_vars(StoreTick)
    /\ \A c \in Callers :
        WF_vars(CheckIncr(c)) /\ WF_vars(CheckExpire(c)) /\ WF_vars(CheckReturn(c))

(***************************************************************************)
(* The acquisition controller: POST /weather-for-route,                    *)
(* getWeatherForWaypoints and getWeatherForPoint, one step per await       *)
(***************************************************************************)
\* req.body.waypoints: missing, not an array, or an array.  The arrays of one
\* waypoint, and the arrays of two: the same cache cell twice, the same point
\* in two hour buckets, a point out of AEMET's coverage before or after one
\* inside, and a null element
NoList == {[kind |-> "missing", list |-> <<>>], [kind |-> "notArray", list |-> <<>>],
           [kind |-> "array", list |-> <<>>]}

OneWaypoint ==
    {[kind |-> "array", list |-> l] :
        l \in {<<W(Madrid, 0)>>, <<W(Paris, 0)>>, <<NullWaypoint>>}}

TwoWaypoints ==
    {[kind |-> "array", list |-> l] :
        l \in {<<W(Madrid, 0), W(MadridNear, 0)>>, <<W(Madrid, 0), W(Madrid, 60)>>,
               <<W(Paris, 0), W(Madrid, 0)>>, <<W(Madrid, 0), W(Paris, 0)>>,
               <<W(Madrid, 0), NullWaypoint>>}}

Bodies == NoList \cup OneWaypoint \cup TwoWaypoints

NoWeatherData == "No se pudieron obtener datos meteorologicos de ninguna fuente"

\* getWeatherForWaypoints: const now = new Date(), the minute the request arrives
Now == 0

\* the outcome of each provider for the waypoint being acquired
NoOutcomes == [p \in Providers |-> "none"]

\* per provider, the calls of checkRateLimit and of the adapter made for the
\* waypoint being acquired
NoCallsMade == [p \in Providers |-> 0]

\* no adapter has sent a request over the network for the point
NoUpstreamCall == [p \in Providers |-> FALSE]

NewRoute(body) ==
    [pc |-> "request", body |-> body, i |-> 0, k |-> 0, ts |-> 0,
     sources |-> <<>>, outcomes |-> NoOutcomes, fetched |-> <<>>, success |-> FALSE,
     existing |-> <<>>, lookup |-> "", results |-> <<>>, response |-> <<>>,
     checks |-> NoCallsMade, calls |-> NoCallsMade, upstream |-> NoUpstreamCall]

\* the next provider of providerPriority after position k with
\* provider.isAvailable(), or Len(providerPriority) + 1
RECURSIVE NextAvailable(_)
NextAvailable(k) ==
    IF k + 1 > Len(providerPriority) THEN k + 1
    ELSE IF apiKey[providerPriority[k + 1]] THEN k + 1
    ELSE NextAvailable(k + 1)

\* generateWeatherSummary(weatherResults)
generateWeatherSummary(weatherResults) ==
    LET valid == {i \in 1..Len(weatherResults) : weatherResults[i].weather # <<>>}
        temperatures == {weatherResults[i].weather[1].temperature : i \in valid} \ {Null}
    IN  IF valid = {} THEN [message |-> "none"]
        ELSE [dataPoints |-> Cardinality(valid),
              temperatureMin |-> IF temperatures = {} THEN Null
                                 ELSE IF NaN \in temperatures THEN NaN
                                 ELSE Min(temperatures),
              temperatureMax |-> IF temperatures = {} THEN Null
                                 ELSE IF NaN \in temperatures THEN NaN
                                 ELSE Max(temperatures),
              coveragePercentage |->
                (200 * Cardinality(valid) + Len(weatherResults)) \div (2 * Len(weatherResults))]

\* identifyRisks: const riskThresholds
riskThresholds ==
    [windSpeed |-> 25, precipitation |-> 5, temperature |-> [min |-> 0, max |-> 35],
     visibility |-> 1000]

\* a plausible slip: the comparison includes the limit
AboveOrEqual(x, limit) == x >= limit

\* x > limit
Above(x, limit) == x > limit

\* a plausible slip: 40 km/h is already high
windLevelInclusive(windSpeed) == IF windSpeed >= 40 THEN "high" ELSE "medium"

\* level: weather.windSpeed > 40 ? 'high' : 'medium'
windLevel(windSpeed) == IF windSpeed > 40 THEN "high" ELSE "medium"

\* identifyRisks(weatherResults): the alerts of one result, in the order pushed
RisksOf(result, index) ==
    LET w == result.weather[1]
        alert(type, level) ==
            [type |-> type, level |-> level, location |-> index,
             lat |-> result.waypoint.lat, lon |-> result.waypoint.lon,
             timestamp |-> result.timestamp]
        wind == IF IsNumber(w.windSpeed) /\ Above(w.windSpeed, riskThresholds.windSpeed)
                THEN <<alert("wind", windLevel(w.windSpeed))>>
                ELSE <<>>
        rain == IF IsNumber(w.precipitation)
                   /\ Above(w.precipitation, riskThresholds.precipitation)
                THEN <<alert("precipitation",
                             IF w.precipitation > 15 THEN "high" ELSE "medium")>>
                ELSE <<>>
        temp == IF IsNumber(w.temperature)
                   /\ (\/ w.temperature < riskThresholds.temperature.min
                       \/ Above(w.temperature, riskThresholds.temperature.max))
                THEN <<alert("temperature", "medium")>>
                ELSE <<>>
        vis  == IF IsNumber(w.visibility) /\ w.visibility # 0
                   /\ w.visibility < riskThresholds.visibility
                THEN <<alert("visibility", IF w.visibility < 500 THEN "high" ELSE "medium")>>
                ELSE <<>>
    IN  wind \o rain \o temp \o vis

RECURSIVE RisksFrom(_, _)
RisksFrom(weatherResults, index) ==
    IF index > Len(weatherResults) THEN <<>>
    ELSE (IF weatherResults[index].weather = <<>> THEN <<>>
          ELSE RisksOf(weatherResults[index], index))
         \o RisksFrom(weatherResults, index + 1)

identifyRisks(weatherResults) == RisksFrom(weatherResults, 1)

\* getUsedSources(weatherResults)
getUsedSources(weatherResults) ==
    UNION {{weatherResults[i].weather[1].sources[j] :
                j \in 1..Len(weatherResults[i].weather[1].sources)} :
           i \in {n \in 1..Len(weatherResults) : weatherResults[n].weather # <<>>}}

\* a plausible slip: an off-by-one in the length test
NoSourcesOffByOne(sources) == Len(sources) <= 1

\* if (weatherSources.length === 0) throw
NoSources(sources) == Len(sources) = 0

\* the entry getWeatherForWaypoints pushes for the waypoint just acquired:
\* the fused record, or weather null and the error message when
\* getWeatherForPoint threw
ResultEntry(r) ==
    [waypoint |-> r.body.list[r.i],
     weather |-> IF NoSources(r.sources) THEN <<>> ELSE <<mergeWeatherData(r.sources)>>,
     error |-> IF NoSources(r.sources) THEN NoWeatherData ELSE "",
     timestamp |-> r.ts]

\* res.json(response) of POST /weather-for-route
RouteResponse(weatherResults) ==
    [status |-> 200,
     weatherData |-> weatherResults,
     summary |-> generateWeatherSummary(weatherResults),
     risks |-> identifyRisks(weatherResults),
     sources |-> getUsedSources(weatherResults),
     processedAt |-> Now]

\* a plausible slip: a waypoint that failed gets no entry
FinishPointSkipping(r) ==
    LET results == IF NoSources(r.sources) THEN r.results
                   ELSE Append(r.results, ResultEntry(r))
    IN  IF r.i < Len(r.body.list)
        THEN [r EXCEPT !.results = results, !.i = r.i + 1, !.pc = "waypoint"]
        ELSE [r EXCEPT !.results = results, !.pc = "done",
                       !.response = <<RouteResponse(results)>>]

\* the end of getWeatherForPoint (lines 251-255) and of the loop body of
\* getWeatherForWaypoints; after the last waypoint the handler answers
FinishPoint(r) ==
    LET results == Append(r.results, ResultEntry(r))
    IN  IF r.i < Len(r.body.list)
        THEN [r EXCEPT !.results = results, !.i = r.i + 1, !.pc = "waypoint"]
        ELSE [r EXCEPT !.results = results, !.pc = "done",
                       !.response = <<RouteResponse(results)>>]

\* a plausible slip: a provider that failed ends the loop over the providers
AfterFailureBreak(r) == FinishPoint(r)

\* `continue`: on to the next available provider, or out of the loop
Continue(r) ==
    LET k2 == NextAvailable(r.k)
    IN  IF k2 <= Len(providerPriority)
        THEN [r EXCEPT !.k = k2, !.pc = "cacheGet", !.lookup = ""]
        ELSE FinishPoint([r EXCEPT !.lookup = ""])

\* a plausible slip: a provider that failed is tried again
AfterFailureRetry(r) == [r EXCEPT !.pc = "cacheGet", !.lookup = ""]

\* the catch block of getWeatherForPoint ends with `continue`
AfterFailure(r) == Continue(r)

\* a plausible slip: a denied provider ends the loop over the providers
AfterDeniedBreak(r) == FinishPoint([r EXCEPT !.lookup = ""])

\* if (!canMakeRequest) { ...; continue; }
AfterDenied(r) == Continue(r)

\* a plausible slip: the first cache hit ends the loop over the providers
AfterHitBreak(r) == FinishPoint([r EXCEPT !.lookup = ""])

\* if (cached) { weatherSources.push(...); continue; }
AfterHit(r) == Continue(r)

CurrentProvider == providerPriority[rt.k]
CurrentKey == cacheKey(CurrentProvider, rt.body.list[rt.i], rt.ts)

\* app.post('/weather-for-route'): the validation of req.body.waypoints
ReceiveRoute ==
    /\ rt.pc = "request"
    /\ rt' = IF rt.body.kind # "array" \/ Len(rt.body.list) = 0
             THEN [rt EXCEPT !.pc = "done", !.response = <<[status |-> 400]>>]
             ELSE [rt EXCEPT !.pc = "waypoint", !.i = 1]
    /\ UNCHANGED <<mergeVars, riskVars, statusVars, auxVars, limiterVars, apiKey, cache, cacheTtl, stats, queryAge, writeAge>>

\* getWeatherForWaypoints, the head of the loop body: a null element throws
\* on waypoint.estimatedTimeFromStart in the try block and again in the catch
\* block, and the handler answers 500; otherwise getWeatherForPoint starts
BeginWaypoint ==
    /\ rt.pc = "waypoint"
    /\ LET waypoint == rt.body.list[rt.i] IN
       IF waypoint = NullWaypoint
       THEN rt' = [rt EXCEPT !.pc = "done", !.response = <<[status |-> 500]>>]
       ELSE rt' = Continue([rt EXCEPT !.ts = Now + waypoint.estimatedTimeFromStart,
                                      !.k = 0, !.sources = <<>>,
                                      !.outcomes = NoOutcomes,
                                      !.checks = NoCallsMade, !.calls = NoCallsMade,
                                      !.upstream = NoUpstreamCall])
    /\ UNCHANGED <<mergeVars, riskVars, statusVars, auxVars, limiterVars, apiKey, cache, cacheTtl, stats, queryAge, writeAge>>

\* a plausible slip: the cached value is ignored
CacheHitNever(cached) == FALSE

\* if (cached)
CacheHit(cached) == cached # <<>>

\* const cached = await RedisClient.get(cacheKey): a hit is pushed with
\* cached: true; on a miss checkRateLimit is called
CacheGet ==
    /\ rt.pc = "cacheGet"
    /\ \E ok \in BOOLEAN :
        LET cached == IF Reaches(ok) THEN cache[CurrentKey] ELSE <<>> IN
        IF CacheHit(cached)
        THEN /\ rt' = AfterHit([rt EXCEPT
                        !.sources = Append(@, [provider |-> CurrentProvider,
                                               data |-> JsonRoundTrip(cached[1]),
                                               cached |-> TRUE]),
                        !.outcomes[CurrentProvider] = "hit"])
             /\ UNCHANGED callers
        ELSE /\ rt' = [rt EXCEPT !.pc = "check",
                                     !.checks[CurrentProvider] = @ + 1,
                                     !.lookup = IF Reaches(ok) THEN "miss" ELSE "failed"]
             /\ callers' = [callers EXCEPT
                        ![1] = [IdleCaller EXCEPT !.pc = "incr", !.api = CurrentProvider]]
    /\ UNCHANGED <<mergeVars, riskVars, statusVars, auxVars, isConnected, rlCount, rlTtl, grantsInWindow, checksInWindow, checksLeft, answer,
                   apiKey, cache, cacheTtl, stats, queryAge, writeAge>>

\* const canMakeRequest = await rateLimiter.checkRateLimit(providerName)
AfterCheck ==
    /\ rt.pc = "check"
    /\ callers[1].pc = "idle"
    /\ answer # <<>>
    /\ rt' = IF answer[1].allowed
             THEN [rt EXCEPT !.pc = "adapter", !.calls[CurrentProvider] = @ + 1]
             ELSE AfterDenied([rt EXCEPT !.outcomes[CurrentProvider] = "denied"])
    /\ answer' = <<>>
    /\ UNCHANGED <<mergeVars, riskVars, statusVars, auxVars, isConnected, rlCount, rlTtl, callers, grantsInWindow, checksInWindow, checksLeft,
                   apiKey, cache, cacheTtl, stats, queryAge, writeAge>>

\* await provider.getWeatherForPoint(point.lat, point.lon, timestamp), answered
AdapterSucceeds ==
    /\ rt.pc = "adapter"
    /\ Covers(CurrentProvider, rt.body.list[rt.i])
    /\ rt' = [rt EXCEPT !.pc = "cacheSet",
                        !.upstream[CurrentProvider] = TRUE,
                        !.fetched = <<AdapterRecord(CurrentProvider, rt.body.list[rt.i], rt.ts)>>]
    /\ queryAge' = [queryAge EXCEPT ![CurrentKey] = 0]
    /\ UNCHANGED <<mergeVars, riskVars, statusVars, auxVars, limiterVars, apiKey, cache, cacheTtl, stats, writeAge>>

\* await provider.getWeatherForPoint(...), throwing: out of coverage before
\* the upstream call, or one of the upstream failures after it
AdapterFails ==
    /\ rt.pc = "adapter"
    /\ \E kind \in UpstreamFailures \cup {"Unsupported"} :
        /\ (kind = "Unsupported") = ~Covers(CurrentProvider, rt.body.list[rt.i])
        /\ rt' = [rt EXCEPT !.pc = "logGet", !.success = FALSE,
                            !.upstream[CurrentProvider] = (kind # "Unsupported"),
                            !.outcomes[CurrentProvider] = "failed"]
        /\ queryAge' = [queryAge EXCEPT ![CurrentKey] = 0]
    /\ UNCHANGED <<mergeVars, riskVars, statusVars, auxVars, limiterVars, apiKey, cache, cacheTtl, stats, writeAge>>

\* await RedisClient.setex(cacheKey, 1800, JSON.stringify(weatherData)), then
\* weatherSources.push({provider, data: weatherData, cached: false})
CacheSet ==
    /\ rt.pc = "cacheSet"
    /\ \E ok \in BOOLEAN :
        IF Reaches(ok)
        THEN /\ cache' = [cache EXCEPT ![CurrentKey] = <<rt.fetched[1]>>]
             /\ cacheTtl' = [cacheTtl EXCEPT ![CurrentKey] = CacheTtlTicks]
             /\ writeAge' = [writeAge EXCEPT ![CurrentKey] = 0]
        ELSE UNCHANGED <<cache, cacheTtl, writeAge>>
    /\ rt' = [rt EXCEPT !.pc = "logGet", !.success = TRUE, !.fetched = <<>>,
                        !.outcomes[CurrentProvider] = "ok",
                        !.sources = Append(@, [provider |-> CurrentProvider,
                                               data |-> rt.fetched[1],
                                               cached |-> FALSE])]
    /\ UNCHANGED <<mergeVars, riskVars, statusVars, auxVars, limiterVars, apiKey, stats, queryAge>>

\* logApiCall: const existing = await RedisClient.get(key)
LogGet ==
    /\ rt.pc = "logGet"
    /\ \E ok \in BOOLEAN :
        rt' = [rt EXCEPT !.pc = "logSet",
                         !.existing = IF Reaches(ok) THEN stats[CurrentProvider] ELSE <<>>]
    /\ UNCHANGED <<mergeVars, riskVars, statusVars, auxVars, limiterVars, apiKey, cache, cacheTtl, stats, queryAge, writeAge>>

\* a plausible slip: the counters read are not added
NewStatsOwnOnly(success, existing) ==
    [calls |-> 1, successes |-> IF success THEN 1 ELSE 0, errors |-> IF success THEN 0 ELSE 1]

\* logApiCall: the counters it stores, from its own call and the ones read
NewStats(success, existing) ==
    LET own == [calls |-> 1, successes |-> IF success THEN 1 ELSE 0,
                errors |-> IF success THEN 0 ELSE 1]
    IN  IF existing = <<>> THEN own
        ELSE [calls |-> own.calls + existing[1].calls,
              successes |-> own.successes + existing[1].successes,
              errors |-> own.errors + existing[1].errors]

\* logApiCall: await RedisClient.setex(key, 86400, JSON.stringify(stats)); the
\* 24 hours of this key outlast every run, so its expiry is not counted
\* down.  Then the loop continues (after a success, or from the catch block)
LogSet ==
    /\ rt.pc = "logSet"
    /\ \E ok \in BOOLEAN :
        stats' = IF Reaches(ok)
                 THEN [stats EXCEPT ![CurrentProvider] = <<NewStats(rt.success, rt.existing)>>]
                 ELSE stats
    /\ rt' = IF rt.success
             THEN Continue([rt EXCEPT !.existing = <<>>])
             ELSE AfterFailure([rt EXCEPT !.existing = <<>>])
    /\ UNCHANGED <<mergeVars, riskVars, statusVars, auxVars, limiterVars, apiKey, cache, cacheTtl, queryAge, writeAge>>

\* the API keys a deployment configures (process.env.*_API_KEY)
Configured(S) == [p \in Providers |-> p \in S]

KeyConfigurations ==
    {Configured(S) : S \in {{}, {"meteoblue"}, {"aemet"}, {"meteoblue", "aemet"},
                            {"aemet", "meteored"}}}

\* the requests of a run: any list against at most one configured provider,
\* and the lists of at most one waypoint against any configuration
Requests ==
    {<<f, b>> \in KeyConfigurations \X Bodies :
        b \in TwoWaypoints => Cardinality({p \in Providers : f[p]}) <= 1}

\* the checks of meteoblue that earlier requests made in the running window
\* when the request arrives: none, or, for one waypoint against meteoblue and
\* aemet, as many as exhaust it
EarlierChecks(q) ==
    IF q[2] \in OneWaypoint /\ q[1] = Configured({"meteoblue", "aemet"})
    THEN {0, limits["meteoblue"].max}
    ELSE {0}

\* the cache entries that earlier requests left when the request arrives:
\* none, or, for one waypoint against meteoblue and aemet, the record of
\* meteoblue for the waypoint, just written
EarlierEntries(q) ==
    IF q[2] \in OneWaypoint /\ q[2].list[1] # NullWaypoint
       /\ q[1] = Configured({"meteoblue", "aemet"})
    THEN {{}, {cacheKey("meteoblue", q[2].list[1], Now + q[2].list[1].estimatedTimeFromStart)}}
    ELSE {{}}

InitAcq ==
    /\ mSources = <<>>
    /\ mResult = <<>>
    /\ isConnected = FALSE
    /\ stats = [p \in Providers |-> <<>>]
    /\ callers = [c \in Callers |-> IdleCaller]
    /\ checksLeft = MaxChecks
    /\ answer = <<>>
    /\ InitQueries
    /\ InitAux
    /\ \E q \in Requests :
        /\ apiKey = q[1]
        /\ rt = NewRoute(q[2])
        /\ \E e \in EarlierChecks(q) :
            /\ rlCount = [p \in Providers |-> IF p = "meteoblue" THEN e ELSE 0]
            /\ rlTtl = [p \in Providers |->
                            IF p = "meteoblue" /\ e > 0 THEN WindowTicks ELSE KeyAbsent]
            /\ grantsInWindow = rlCount
            /\ checksInWindow = rlCount
        /\ \E written \in EarlierEntries(q) :
            /\ cache = [k \in CacheKeys |->
                          IF k \in written
                          THEN <<AdapterRecord("meteoblue", q[2].list[1],
                                               Now + q[2].list[1].estimatedTimeFromStart)>>
                          ELSE <<>>]
            /\ cacheTtl = [k \in CacheKeys |-> IF k \in written THEN CacheTtlTicks ELSE KeyAbsent]
            /\ queryAge = [k \in CacheKeys |-> IF k \in written THEN 0 ELSE -1]
            /\ writeAge = [k \in CacheKeys |-> IF k \in written THEN 0 ELSE -1]

NextAcq ==
    \/ OnConnect
    \/ OnClose
    \/ StoreTick
    \/ ReceiveRoute
    \/ BeginWaypoint
    \/ CacheGet
    \/ \E c \in Callers : CheckIncr(c)
    \/ \E c \in Callers : CheckExpire(c)
    \/ \E c \in Callers : CheckReturn(c)
    \/ AfterCheck
    \/ AdapterSucceeds
    \/ AdapterFails
    \/ CacheSet
    \/ LogGet
    \/ LogSet

SpecAcq == InitAcq /\ [][NextAcq]_vars

(***************************************************************************)
(* Fusion as a state machine: the argument is any list of records of       *)
(* distinct providers, in any order; Merge applies mergeWeatherData.       *)
(***************************************************************************)
\* all orderings of the provider set S
RECURSIVE Orderings(_)
Orderings(S) ==
    IF S = {} THEN {<<>>}
    ELSE UNION {{<<p>> \o o : o \in Orderings(S \ {p})} : p \in S}

\* the lists over the providers of o, in that order, with any record of each
RECURSIVE ListsFor(_, _)
ListsFor(o, c) ==
    IF o = <<>> THEN {<<>>}
    ELSE {<<[provider |-> Head(o), data |-> r, cached |-> c]>> \o t :
            r \in RecordsOf(Head(o)), t \in ListsFor(Tail(o), c)}

SourceLists ==
    UNION {ListsFor(o, c) : o \in UNION {Orderings(S) : S \in (SUBSET Providers) \ {{}}},
                            c \in BOOLEAN}

InitMerge ==
    /\ mSources \in SourceLists
    /\ mResult = <<>>
    /\ InitStore
    /\ InitCallers
    /\ InitQueries
    /\ InitAux
    /\ apiKey = [p \in Providers |-> TRUE]
    /\ rt = NoRoute

Merge ==
    /\ mResult = <<>>
    /\ mResult' = <<mergeWeatherData(mSources)>>
    /\ UNCHANGED <<mSources, riskVars, statusVars, auxVars, limiterVars, acqVars>>

NextMerge == Merge

SpecMerge == InitMerge /\ [][NextMerge]_vars

(***************************************************************************)
(* Claims                                                                  *)
(***************************************************************************)
HighestPriorityIndex(src) ==
    CHOOSE i \in 1..Len(src) :
        \A j \in 1..Len(src) : priority[src[j].provider] <= priority[src[i].provider]

\* C1: for every non-empty list of records of distinct providers, in every
\* order, mergeWeatherData returns one fused record whose primary is the
\* contributing provider of highest priority and whose temperature, windSpeed,
\* windDirection and precipitation are that provider's.
C1_PrimaryIsHighestPriority ==
    mResult # <<>> =>
        LET best == mSources[HighestPriorityIndex(mSources)]
            m == mResult[1]
        IN  /\ Len(mResult) = 1
            /\ m.primary = best.provider
            /\ m.temperature = best.data.temperature
            /\ m.windSpeed = best.data.windSpeed
            /\ m.windDirection = best.data.windDirection
            /\ m.precipitation = best.data.precipitation

\* C1 witness: a list of three records that arrives lowest priority first, fused
C1_Witness ==
    /\ mResult # <<>>
    /\ Len(mSources) = 3
    /\ HighestPriorityIndex(mSources) = 3
    /\ mResult[1].primary = mSources[3].provider
    /\ mResult[1].temperature # mSources[1].data.temperature

\* C2: the confidence of the fused record is 75 for one source, 85 for two and
\* 95 for three or more, whatever confidence the provider records carry.
C2_ConfidenceByCountOnly ==
    mResult # <<>> => mResult[1].confidence = calculateConfidence(Len(mSources))

\* C3: an open rate-limit window is always followed by its reset (the counter
\* key is gone and calls are allowed again), on every execution, also when
\* the store is unavailable around the first increment.
C3_WindowEventuallyResets ==
    \A p \in Providers : (rlCount[p] > 0) ~> (rlCount[p] = 0)

\* C4: with the store answering, a call whose incremented counter exceeds the
\* provider's maximum returns denied, under every interleaving of the calls,
\* so at most max calls of a provider are allowed in one window.
C4_AtMostMaxAllowedPerWindow ==
    /\ \A p \in Providers : grantsInWindow[p] <= limits[p].max
    /\ answer # <<>> =>
        LET a == answer[1] IN
        (a.served /\ a.current > limits[a.api].max) => ~a.allowed

\* C4 witness: a provider's window is full, the call that returned last was
\* served by the store and denied, and another call is in progress
C4_Witness ==
    /\ answer # <<>>
    /\ answer[1].served
    /\ ~answer[1].allowed
    /\ grantsInWindow[answer[1].api] = limits[answer[1].api].max
    /\ \E c \in Callers : callers[c].pc # "idle" /\ callers[c].api = answer[1].api

\* C10: a checkRateLimit call whose increment did not reach the store (not
\* connected, or the command failed) returns allowed, for every provider.
C10_FailOpen ==
    answer # <<>> => (~answer[1].served => answer[1].allowed)

\* C10 witness: the provider's counter in the store is past its maximum, and the
\* call that returned last, not served by the store, was allowed
C10_Witness ==
    /\ answer # <<>>
    /\ ~answer[1].served
    /\ answer[1].allowed
    /\ rlCount[answer[1].api] > limits[answer[1].api].max

(***************************************************************************)
(* Claims about the acquisition controller                                 *)
(***************************************************************************)
\* getWeatherForPoint has just returned or thrown for a waypoint: its entry is
\* the last of results and outcomes tells what each provider did for it
PointFinished ==
    \/ rt.pc = "waypoint" /\ rt.i > 1
    \/ rt.pc = "done" /\ rt.response[1].status = 200

LastEntry == rt.results[Len(rt.results)]

Contributed == {p \in Providers : rt.outcomes[p] \in {"hit", "ok"}}

C6_FailsIffNoContribution ==
    PointFinished =>
        /\ (LastEntry.weather = <<>>) <=> (Contributed = {})
        /\ LastEntry.weather = <<>> => LastEntry.error = NoWeatherData
        /\ LastEntry.weather # <<>> =>
            /\ LastEntry.error = ""
            /\ LastEntry.weather[1].primary \in Contributed
            /\ {LastEntry.weather[1].sources[j] :
                    j \in 1..Len(LastEntry.weather[1].sources)} = Contributed

\* C6 witness: a point finished with a fused record although a provider failed
C6_Witness ==
    /\ PointFinished
    /\ LastEntry.weather # <<>>
    /\ \E p \in Providers : rt.outcomes[p] = "failed"

\* the weatherData list of a normal response
C7_Shape ==
    (rt.pc = "done" /\ rt.response[1].status = 200) =>
        LET weatherData == rt.response[1].weatherData IN
        /\ Len(weatherData) = Len(rt.body.list)
        /\ \A i \in 1..Len(weatherData) :
            /\ weatherData[i].waypoint = rt.body.list[i]
            /\ (weatherData[i].weather = <<>>) <=> (weatherData[i].error # "")

\* the entries pushed for the earlier waypoints stay as they were pushed
C7_Stable ==
    rt.pc \notin {"none", "request"} =>
        \A i \in 1..Len(rt.results) :
            Len(rt'.results) >= i /\ rt'.results[i] = rt.results[i]

C8_ErrorOnlyOnBadList ==
    rt.pc = "done" =>
        IF rt.body.kind = "array" /\ Len(rt.body.list) > 0
        THEN /\ rt.response[1].status = 200
             /\ DOMAIN rt.response[1] =
                    {"status", "weatherData", "summary", "risks", "sources", "processedAt"}
        ELSE rt.response[1].status = 400

\* every provider with an API key was processed for the finished point
EveryConfiguredProcessed ==
    \A p \in Providers : apiKey[p] => rt.outcomes[p] \in {"hit", "denied", "ok", "failed"}

\* the point ended with a fused record or with the no-weather-data error
OnlyNoWeatherDataLeaves ==
    /\ LastEntry.error \in {"", NoWeatherData}
    /\ (LastEntry.error = NoWeatherData) <=> (Contributed = {})

\* C9 as stated: the failure of a provider, unconfigured or out of coverage or
\* failing upstream, is recorded, every later provider is still processed, and
\* nothing but the no-weather-data error leaves getWeatherForPoint.
C9_EveryFailureRecorded ==
    PointFinished =>
        /\ \A p \in Providers :
              rt.outcomes[p] \notin {"hit", "ok", "denied"} => rt.outcomes[p] = "failed"
        /\ EveryConfiguredProcessed
        /\ OnlyNoWeatherDataLeaves

\* C9 amended: the failure of a provider whose adapter was invoked is recorded
\* (a provider without API key is skipped without a record), every later
\* provider is still processed, and nothing but the no-weather-data error
\* leaves getWeatherForPoint.
C9_FailureConfined ==
    PointFinished =>
        /\ \A p \in Providers :
              rt.outcomes[p] \notin {"hit", "ok", "denied"} =>
                    IF apiKey[p] THEN rt.outcomes[p] = "failed" ELSE rt.outcomes[p] = "none"
        /\ EveryConfiguredProcessed
        /\ OnlyNoWeatherDataLeaves

\* C9 witness: a provider failed and a provider after it in the priority list
\* contributed its record
C9_Witness ==
    /\ PointFinished
    /\ \E p, q \in Providers :
        /\ priority[p] > priority[q]
        /\ rt.outcomes[p] = "failed"
        /\ rt.outcomes[q] = "ok"

\* C11: the cache is best-effort.  A lookup that does not reach the store
\* (not connected, or the command fails) is a miss: the acquisition goes on to
\* the rate check with nothing pushed.  A write that does not reach the store
\* writes nothing, and the fetched record is pushed all the same.  Neither
\* ends the request with an error.
C11_CacheBestEffort ==
    [][/\ (rt.pc = "cacheGet" /\ rt' # rt /\ (~isConnected \/ rt'.lookup = "failed")) =>
            /\ rt'.pc = "check"
            /\ rt'.lookup = "failed"
            /\ rt'.sources = rt.sources
            /\ rt'.response = <<>>
       /\ (rt.pc = "cacheSet" /\ rt' # rt) =>
            /\ rt'.pc = "logGet"
            /\ rt'.response = <<>>
            /\ rt'.sources = Append(rt.sources, [provider |-> CurrentProvider,
                                                 data |-> rt.fetched[1], cached |-> FALSE])
            /\ \/ cache' = cache /\ cacheTtl' = cacheTtl
               \/ /\ isConnected
                  /\ cache' = [cache EXCEPT ![CurrentKey] = <<rt.fetched[1]>>]
                  /\ cacheTtl' = [cacheTtl EXCEPT ![CurrentKey] = CacheTtlTicks]]_vars

\* C11 witness: the lookup did not reach the store, the adapter answered, the
\* write did not reach the store either, and the record was pushed
C11_Witness ==
    /\ rt.pc = "logGet"
    /\ rt.lookup = "failed"
    /\ rt.success
    /\ cache[CurrentKey] = <<>>
    /\ rt.outcomes[CurrentProvider] = "ok"

(***************************************************************************)
(* identifyRisks as a state machine: the argument is a list of waypoint    *)
(* results around the thresholds; Identify applies identifyRisks.          *)
(***************************************************************************)
\* values at and next to each threshold, and an absent (null) value
WindSamples == {Null, 24, 25, 26, 40, 41}
PrecipSamples == {Null, 5, 6, 15, 16}
TempSamples == {Null, -1, 0, 35, 36}
VisSamples == {Null, 0, 499, 500, 999, 1000}

\* the fields of a fused record identifyRisks reads
RiskRecord(windSpeed, precipitation, temperature, visibility) ==
    [windSpeed |-> windSpeed, precipitation |-> precipitation,
     temperature |-> temperature, visibility |-> visibility]

\* a waypoint result as getWeatherForWaypoints pushes it
RiskResult(waypoint, weather) ==
    [waypoint |-> waypoint, weather |-> weather,
     error |-> IF weather = <<>> THEN NoWeatherData ELSE "",
     timestamp |-> Now + waypoint.estimatedTimeFromStart]

AllRiskRecords ==
    {RiskRecord(ws, pr, te, vi) :
        ws \in WindSamples, pr \in PrecipSamples, te \in TempSamples, vi \in VisSamples}

\* for the lists of two results: each value below or above its threshold
SomeRiskRecords ==
    {RiskRecord(ws, pr, te, vi) :
        ws \in {25, 41}, pr \in {5, 16}, te \in {0, 36}, vi \in {Null, 499}}

RiskInputs ==
    {<<RiskResult(W(Madrid, 0), <<r>>)>> : r \in AllRiskRecords}
    \cup {<<RiskResult(W(Madrid, 0), a), RiskResult(W(Paris, 60), b)>> :
            a \in {<<>>} \cup {<<r>> : r \in SomeRiskRecords},
            b \in {<<>>} \cup {<<r>> : r \in SomeRiskRecords}}

InitRisks ==
    /\ mSources = <<>>
    /\ mResult = <<>>
    /\ InitStore
    /\ InitCallers
    /\ apiKey = [p \in Providers |-> TRUE]
    /\ rt = NoRoute
    /\ rkResults \in RiskInputs
    /\ rkRisks = <<>>
    /\ st = IdleStatus
    /\ InitAux

Identify ==
    /\ rkRisks = <<>>
    /\ rkRisks' = <<identifyRisks(rkResults)>>
    /\ UNCHANGED <<mergeVars, rkResults, statusVars, auxVars, limiterVars, acqVars>>

NextRisks == Identify

SpecRisks == InitRisks /\ [][NextRisks]_vars

(***************************************************************************)
(* Claims about identifyRisks                                              *)
(***************************************************************************)
\* the alerts of a type that identifyRisks returned for the result at index i
AlertsAt(i, type) ==
    {k \in 1..Len(rkRisks[1]) : rkRisks[1][k].type = type /\ rkRisks[1][k].location = i}

\* no alert of the type for the result at index i
NoAlert(i, type) == AlertsAt(i, type) = {}

\* exactly one alert of the type for the result at index i, of the level
OneAlert(i, type, level) ==
    /\ Cardinality(AlertsAt(i, type)) = 1
    /\ \A k \in AlertsAt(i, type) : rkRisks[1][k].level = level

\* the results that carry a fused record
WithWeather == {i \in 1..Len(rkResults) : rkResults[i].weather # <<>>}

\* C12: windSpeed exactly 25 yields no wind alert, a windSpeed above 25 and at
\* most 40 exactly one wind alert of level medium, a windSpeed above 40
\* exactly one of level high.
C12_WindBoundaries ==
    rkRisks # <<>> =>
        \A i \in WithWeather :
            LET windSpeed == rkResults[i].weather[1].windSpeed IN
            /\ (windSpeed # Null /\ windSpeed <= 25) => NoAlert(i, "wind")
            /\ (windSpeed > 25 /\ windSpeed <= 40) => OneAlert(i, "wind", "medium")
            /\ windSpeed > 40 => OneAlert(i, "wind", "high")

\* C12 witness: a record of windSpeed exactly 40, alerted at level medium
C12_Witness ==
    /\ rkRisks # <<>>
    /\ rkResults[1].weather[1].windSpeed = 40
    /\ OneAlert(1, "wind", "medium")

\* C13: a visibility alert exactly when the record carries a visibility below
\* 1000: high below 500, medium from 500 up; none when visibility is absent or
\* at least 1000.  For every present visibility from 0 upward.
C13_VisibilityAlert ==
    rkRisks # <<>> =>
        \A i \in WithWeather :
            LET visibility == rkResults[i].weather[1].visibility IN
            /\ (visibility = Null \/ visibility >= 1000) => NoAlert(i, "visibility")
            /\ (visibility # Null /\ visibility < 500) => OneAlert(i, "visibility", "high")
            /\ (visibility >= 500 /\ visibility < 1000) => OneAlert(i, "visibility", "medium")

\* C14: a precipitation alert iff precipitation > 5 (high iff > 15, medium
\* otherwise), a temperature alert iff temperature < 0 or > 35, always medium;
\* none at exactly 5, at exactly 0 and at exactly 35.
C14_PrecipitationAndTemperature ==
    rkRisks # <<>> =>
        \A i \in WithWeather :
            LET precipitation == rkResults[i].weather[1].precipitation
                temperature == rkResults[i].weather[1].temperature
            IN  /\ (precipitation = Null \/ precipitation <= 5) => NoAlert(i, "precipitation")
                /\ (precipitation > 5 /\ precipitation <= 15) =>
                        OneAlert(i, "precipitation", "medium")
                /\ precipitation > 15 => OneAlert(i, "precipitation", "high")
                /\ (temperature # Null /\ (temperature < 0 \/ temperature > 35)) =>
                        OneAlert(i, "temperature", "medium")
                /\ (temperature = Null \/ (temperature >= 0 /\ temperature <= 35)) =>
                        NoAlert(i, "temperature")

\* C14 witness: precipitation exactly 5 and temperature exactly 35 without
\* alert, in a record that is alerted for wind
C14_Witness ==
    /\ rkRisks # <<>>
    /\ rkResults[1].weather[1].precipitation = 5
    /\ rkResults[1].weather[1].temperature = 35
    /\ NoAlert(1, "precipitation")
    /\ NoAlert(1, "temperature")
    /\ ~NoAlert(1, "wind")

\* the threshold types the record of result i breaches
Breached(i) ==
    LET w == rkResults[i].weather[1] IN
    {type \in {"wind", "precipitation", "temperature", "visibility"} :
        \/ type = "wind" /\ w.windSpeed # Null /\ w.windSpeed > 25
        \/ type = "precipitation" /\ w.precipitation # Null /\ w.precipitation > 5
        \/ type = "temperature" /\ w.temperature # Null
                                /\ (w.temperature < 0 \/ w.temperature > 35)
        \/ type = "visibility" /\ w.visibility # Null /\ w.visibility < 1000}

\* C15: one alert per breached threshold type per waypoint (at most one per
\* type, several types at once), none for a waypoint whose weather is null;
\* the list is ordered by waypoint index, and each alert carries the
\* coordinates and the timestamp of its own waypoint.
C15_OneAlertPerBreachedType ==
    rkRisks # <<>> =>
        LET risks == rkRisks[1] IN
        /\ \A i \in 1..Len(rkResults) :
                \A type \in {"wind", "precipitation", "temperature", "visibility"} :
                    Cardinality(AlertsAt(i, type)) =
                        IF i \in WithWeather /\ type \in Breached(i) THEN 1 ELSE 0
        /\ \A k, l \in 1..Len(risks) : k < l => risks[k].location <= risks[l].location
        /\ \A k \in 1..Len(risks) :
                /\ risks[k].location \in WithWeather
                /\ risks[k].lat = rkResults[risks[k].location].waypoint.lat
                /\ risks[k].lon = rkResults[risks[k].location].waypoint.lon
                /\ risks[k].timestamp = rkResults[risks[k].location].timestamp

(***************************************************************************)
(* mergeWeatherData on readings around the two discrepancy thresholds      *)
(***************************************************************************)
\* temperatures 5 and 6 apart, wind speeds 15 and 16 apart
SpreadTemperatures == {10, 15, 16}
SpreadWindSpeeds == {10, 25, 26}

\* meteoblue rejects an answer without temperature or wind speed; windy and
\* meteored pass a missing value on as null, and meteored's
\* extractTemperature yields NaN for a forecast.temperature without max/min
SpreadRecords(p) ==
    {ProviderRecord(p, [temperature |-> t, windSpeed |-> w, windDirection |-> 180,
                        precipitation |-> 0], Max(ProviderConfidences[p])) :
        t \in SpreadTemperatures \cup (IF p \in {"windy", "meteored"} THEN {Null} ELSE {})
                                 \cup (IF p = "meteored" THEN {NaN} ELSE {}),
        w \in SpreadWindSpeeds \cup (IF p \in {"windy", "meteored"} THEN {Null} ELSE {})}

\* the lists over the providers of o, in that order, with any such record
RECURSIVE SpreadListsFor(_)
SpreadListsFor(o) ==
    IF o = <<>> THEN {<<>>}
    ELSE {<<[provider |-> Head(o), data |-> r, cached |-> FALSE]>> \o t :
            r \in SpreadRecords(Head(o)), t \in SpreadListsFor(Tail(o))}

\* one or two providers in any order, and aemet, windy, meteored together
SpreadLists ==
    UNION {SpreadListsFor(o) :
            o \in UNION {Orderings(S) :
                            S \in {T \in SUBSET Providers : Cardinality(T) \in {1, 2}}}}
    \cup SpreadListsFor(<<"meteored", "windy", "aemet">>)

InitSpread ==
    /\ mSources \in SpreadLists
    /\ mResult = <<>>
    /\ InitStore
    /\ InitCallers
    /\ InitQueries
    /\ InitAux
    /\ apiKey = [p \in Providers |-> TRUE]
    /\ rt = NoRoute

SpecSpread == InitSpread /\ [][NextMerge]_vars

\* the non-null values of a field over the sources, and how many sources carry one
FieldValues(field) == {mSources[i].data[field] : i \in 1..Len(mSources)} \ {Null}
FieldCount(field) == Cardinality({i \in 1..Len(mSources) : mSources[i].data[field] # Null})

\* max - min of a field over the sources that carry a value
Spread(field) == Max(FieldValues(field)) - Min(FieldValues(field))

\* the warnings of a kind in the fused record
Warnings(kind) == {k \in 1..Len(mResult[1].warnings) : mResult[1].warnings[k].kind = kind}

C17_WindWarning ==
    mResult # <<>> =>
        /\ FieldCount("windSpeed") >= 2 =>
                (Warnings("wind") # {} <=> Spread("windSpeed") > 15)
        /\ mResult[1].warnings # <<>> =>
                LET best == mSources[HighestPriorityIndex(mSources)] IN
                /\ mResult[1].primary = best.provider
                /\ \A f \in {"temperature", "windSpeed", "windDirection", "precipitation",
                             "humidity", "pressure", "cloudCover", "visibility"} :
                        mResult[1][f] = best.data[f]

\* C17 witness: wind speeds 16 apart in a list that arrives lowest priority
\* first; the fused record warns and carries the primary's wind speed
C17_Witness ==
    /\ mResult # <<>>
    /\ Len(mSources) = 2
    /\ HighestPriorityIndex(mSources) = 2
    /\ Spread("windSpeed") = 16
    /\ Warnings("wind") # {}
    /\ mResult[1].windSpeed = mSources[2].data.windSpeed
    /\ mResult[1].windSpeed # mSources[1].data.windSpeed

(***************************************************************************)
(* Claims about the expiry of the rate-limit counter                       *)
(***************************************************************************)
\* caller c resumes after `await RedisClient.expire(...)` for provider p, and
\* it was its own INCR that created the key (the store returned 1)
CreatorExpires(c, p) ==
    /\ callers[c].pc = "expire"
    /\ callers'[c].pc = "decide"
    /\ callers[c].api = p
    /\ callers[c].served
    /\ callers[c].current = 1

\* C18: the window is anchored at the first increment: the expiry of a counter
\* key is set only by the call whose increment created the key, and no call
\* sets or extends the expiry of a key that already has one.
C18_ExpiryOnlyByCreator ==
    [][\A p \in Providers :
        /\ (rlTtl'[p] > 0 /\ rlTtl'[p] # rlTtl[p] /\ rlTtl[p] <= 0) =>
                \E c \in Callers : CreatorExpires(c, p)
        /\ rlTtl[p] > 0 => rlTtl'[p] <= rlTtl[p]]_vars

\* C19: INCR and the conditional EXPIRE act as one step: in every state another
\* request can observe, an existing counter key has an expiry of at most the
\* window.
C19_CounterAlwaysHasExpiry ==
    \A p \in Providers : rlCount[p] > 0 => rlTtl[p] \in 1..limits[p].window

(***************************************************************************)
(* The status query: RateLimiter.getStatus, one step per await, next to    *)
(* the calls of checkRateLimit that move the counters                      *)
(***************************************************************************)
\* GET /providers-status reaches `await rateLimiter.getStatus(name)`
StatusCall(p) ==
    /\ st.pc = "idle"
    /\ p \in Exhaustible
    /\ st' = [pc |-> "get", api |-> p]
    /\ UNCHANGED <<mergeVars, riskVars, auxVars, limiterVars, acqVars>>

\* a plausible slip: the difference without the clamp at 0
RemainingUnclamped(max, used) == max - used

\* Math.max(0, limit.max - used)
Remaining(max, used) == Max({0, max - used})

\* getRemainingRequests: RedisClient.get returns null when the store is not
\* available or the command fails, and a null counts as 0 used.  counter and
\* gotCounter record what the store held and whether the read reached it.
StatusGet ==
    /\ st.pc = "get"
    /\ \E ok \in BOOLEAN :
        LET p == st.api
            current == IF Reaches(ok) /\ rlCount[p] > 0 THEN rlCount[p] ELSE Null
            used == IF current # Null THEN current ELSE 0
        IN  st' = [pc |-> "ttl", api |-> p, remaining |-> Remaining(limits[p].max, used),
                   counter |-> rlCount[p], gotCounter |-> Reaches(ok)]
    /\ UNCHANGED <<mergeVars, riskVars, auxVars, limiterVars, acqVars>>

\* getResetTime: RedisClient.ttl returns -1 when the store is not available or
\* the command fails, -2 for a missing key and -1 for a key without expiry;
\* resetTime is the offset of the Date from the moment of the call, or null.
\* ttl and gotTtl record what the store held and whether the read reached it.
StatusTtl ==
    /\ st.pc = "ttl"
    /\ \E ok \in BOOLEAN :
        LET p == st.api
            ttl == IF Reaches(ok) THEN rlTtl[p] ELSE -1
        IN  st' = [pc |-> "returned", api |-> p, limit |-> limits[p].max,
                   remaining |-> st.remaining,
                   resetTime |-> IF ttl > 0 THEN ttl ELSE Null,
                   windowSeconds |-> limits[p].window,
                   counter |-> st.counter, gotCounter |-> st.gotCounter,
                   ttl |-> rlTtl[p], gotTtl |-> Reaches(ok)]
    /\ UNCHANGED <<mergeVars, riskVars, auxVars, limiterVars, acqVars>>

\* the response is sent
StatusReturn ==
    /\ st.pc = "returned"
    /\ st' = IdleStatus
    /\ UNCHANGED <<mergeVars, riskVars, auxVars, limiterVars, acqVars>>

\* the request whose calls of checkRateLimit run next to the status query
StatusCaller == 1

NextStatus ==
    \/ OnConnect
    \/ OnClose
    \/ StoreTick
    \/ \E p \in Providers : CallCheckRateLimit(StatusCaller, p)
    \/ CheckIncr(StatusCaller)
    \/ CheckExpire(StatusCaller)
    \/ CheckReturn(StatusCaller)
    \/ \E p \in Providers : StatusCall(p)
    \/ StatusGet
    \/ StatusTtl
    \/ StatusReturn

SpecStatus == InitLimiter /\ [][NextStatus]_vars

\* C20 as stated: the status reports remaining = max(0, limit - counter),
\* within [0, limit], equal to limit when no window is open and 0 once the
\* counter has reached the limit; resetTime is null exactly when the counter
\* key has no positive time-to-live.
C20_StatusReportsCounter ==
    st.pc = "returned" =>
        /\ st.remaining = Max({0, st.limit - st.counter})
        /\ st.remaining \in 0..st.limit
        /\ st.counter = 0 => st.remaining = st.limit
        /\ st.counter >= st.limit => st.remaining = 0
        /\ st.resetTime = Null <=> ~(st.ttl > 0)

\* C20 amended: the same, for the reads of the query that reach the store;
\* a read that does not reach it reports the full limit and a null resetTime.
C20_StatusReportsCounterWhenReached ==
    st.pc = "returned" =>
        /\ st.remaining \in 0..st.limit
        /\ st.gotCounter =>
            /\ st.remaining = Max({0, st.limit - st.counter})
            /\ st.counter = 0 => st.remaining = st.limit
            /\ st.counter >= st.limit => st.remaining = 0
        /\ ~st.gotCounter => st.remaining = st.limit
        /\ st.gotTtl => (st.resetTime = Null <=> ~(st.ttl > 0))
        /\ ~st.gotTtl => st.resetTime = Null

\* C20 witness: a query answered from the store while the counter is past the
\* limit and its window is running
C20_Witness ==
    /\ st.pc = "returned"
    /\ st.gotCounter /\ st.gotTtl
    /\ st.counter > st.limit
    /\ st.remaining = 0
    /\ st.resetTime # Null

(***************************************************************************)
(* The cache key of getWeatherForPoint, derived for two point requests     *)
(***************************************************************************)
\* two points on either side of the Greenwich meridian, 40 m apart, near
\* Castellon de la Plana
CastellonWest == [lat |-> 399864, lon |-> -2]
CastellonEast == [lat |-> 399864, lon |-> 3]
KeyPoints == {Madrid, MadridNear, Paris, CastellonWest, CastellonEast}

\* timestamps in minutes: two in the first hour, one in the second
KeyTimestamps == {0, 59, 60}

KeyRequests ==
    [provider : Providers, point : KeyPoints, timestamp : KeyTimestamps]

\* getWeatherForPoint: `const cacheKey = ...` (line 210) is the key of the
\* lookup RedisClient.get(cacheKey) and of the write RedisClient.setex(cacheKey, ...)
KeysOf(q) ==
    LET key == cacheKey(q.provider, q.point, q.timestamp)
    IN  [lookup |-> key, write |-> key]

InitKeys ==
    /\ InitMore
    /\ mSources = <<>>
    /\ mResult = <<>>
    /\ InitStore
    /\ InitCallers
    /\ InitQueries
    /\ apiKey = [p \in Providers |-> TRUE]
    /\ rt = NoRoute
    /\ \E a, b \in KeyRequests : keys = [pc |-> "requests", a |-> a, b |-> b]
    /\ bot = NoBot
    /\ ad = NoAdapterCall

DeriveKeys ==
    /\ keys.pc = "requests"
    /\ keys' = [pc |-> "derived", a |-> keys.a, b |-> keys.b,
                keysA |-> KeysOf(keys.a), keysB |-> KeysOf(keys.b)]
    /\ UNCHANGED <<mergeVars, riskVars, statusVars, moreVars, bot, ad, limiterVars, acqVars>>

NextKeys == DeriveKeys

SpecKeys == InitKeys /\ [][NextKeys]_vars

\* a coordinate in 1/10000 degree rounded to 3 decimals, as a number of
\* thousandths
Rounded3(x) == IF x >= 0 THEN (x + 5) \div 10 ELSE -((-x + 5) \div 10)

\* two requests for the same 3-decimal cell and the same hour bucket
SameCellAndHour(a, b) ==
    /\ Rounded3(a.point.lat) = Rounded3(b.point.lat)
    /\ Rounded3(a.point.lon) = Rounded3(b.point.lon)
    /\ HourBucket(a.timestamp) = HourBucket(b.timestamp)

\* C21: lookups and writes of a request use one key; two requests for the
\* same provider whose points round to the same 3-decimal cell and whose
\* timestamps fall in the same hour bucket read and write the same entry;
\* requests for different providers never share an entry.
C21_SameCellSameEntry ==
    keys.pc = "derived" =>
        /\ keys.keysA.lookup = keys.keysA.write
        /\ keys.keysB.lookup = keys.keysB.write
        /\ (keys.a.provider = keys.b.provider /\ SameCellAndHour(keys.a, keys.b)) =>
                keys.keysB.lookup = keys.keysA.write
        /\ keys.a.provider # keys.b.provider => keys.keysB.lookup # keys.keysA.write

(***************************************************************************)
(* The telegram-bot request limiter (middleware/rateLimiter.js), one step  *)
(* per await; its commands go to ioredis directly and reject on an error   *)
(***************************************************************************)
\* parseInt(process.env.RATE_LIMIT_MAX_REQUESTS) || 30, scaled down so that a
\* window can be exhausted
maxRequests == 2

\* Math.ceil(windowMs / 1000): 60 s, in ticks of 30 s
BotWindowTicks == 2

\* the requests of one run, and the requests that can be in the middleware at once
MaxBotRequests == 4
BotHandlers == {1, 2}

\* req.body.from.id of the users that send requests
BotUsers == {"u1", "u2"}

IdleHandler == [pc |-> "idle", user |-> "u1", current |-> 0, fresh |-> FALSE]

\* no request answered yet
NoOutcome == [user |-> "u1", current |-> 0, outcome |-> "none", error |-> FALSE]

\* client: whether `new Redis(...)` succeeded (redis is null otherwise).
\* count, ttl: the keys rate_limit:{userId}.  passed counts, per user, the
\* requests counted in the running window that were passed on.
InitBot ==
    /\ InitMore
    /\ mSources = <<>>
    /\ mResult = <<>>
    /\ InitStore
    /\ InitCallers
    /\ InitQueries
    /\ apiKey = [p \in Providers |-> TRUE]
    /\ rt = NoRoute
    /\ keys = NoKeys
    /\ ad = NoAdapterCall
    /\ \E client \in BOOLEAN :
        bot = [client |-> client,
               count |-> [u \in BotUsers |-> 0],
               ttl |-> [u \in BotUsers |-> KeyAbsent],
               passed |-> [u \in BotUsers |-> 0],
               handlers |-> [h \in BotHandlers |-> IdleHandler],
               left |-> MaxBotRequests,
               last |-> NoOutcome]

\* the request of handler h leaves the middleware: next() or res.status(429)
BotAnswer(b, h, outcome, error) ==
    [b EXCEPT !.handlers[h] = IdleHandler,
              !.last = [user |-> b.handlers[h].user, current |-> b.handlers[h].current,
                        outcome |-> outcome, error |-> error],
              !.passed[b.handlers[h].user] =
                    IF outcome = "next" /\ ~error /\ b.handlers[h].fresh THEN @ + 1 ELSE @]

\* a request of user u enters the middleware; without a client it is passed on
BotReceive(h, u) ==
    /\ bot.handlers[h].pc = "idle"
    /\ bot.left > 0
    /\ bot' = IF bot.client
              THEN [bot EXCEPT !.left = @ - 1,
                               !.handlers[h] = [IdleHandler EXCEPT !.pc = "incr", !.user = u]]
              ELSE BotAnswer([bot EXCEPT !.left = @ - 1, !.handlers[h].user = u],
                             h, "next", TRUE)
    /\ UNCHANGED <<mergeVars, riskVars, statusVars, moreVars, keys, ad, limiterVars, acqVars>>

\* const current = await redis.incr(key); a rejected command is caught and
\* the request is passed on
BotIncr(h) ==
    /\ bot.handlers[h].pc = "incr"
    /\ \E ok \in BOOLEAN :
        LET u == bot.handlers[h].user IN
        bot' = IF ok
               THEN [bot EXCEPT !.count[u] = @ + 1,
                                !.ttl[u] = IF bot.count[u] = 0 THEN NoExpiry ELSE @,
                                !.handlers[h].current = bot.count[u] + 1,
                                !.handlers[h].fresh = TRUE,
                                !.handlers[h].pc = IF bot.count[u] + 1 = 1
                                                   THEN "expire" ELSE "decide"]
               ELSE BotAnswer(bot, h, "next", TRUE)
    /\ UNCHANGED <<mergeVars, riskVars, statusVars, moreVars, keys, ad, limiterVars, acqVars>>

\* if (current === 1) await redis.expire(key, Math.ceil(windowMs / 1000))
BotExpire(h) ==
    /\ bot.handlers[h].pc = "expire"
    /\ \E ok \in BOOLEAN :
        LET u == bot.handlers[h].user IN
        bot' = IF ok
               THEN [bot EXCEPT !.ttl[u] = IF bot.count[u] > 0 THEN BotWindowTicks ELSE @,
                                !.handlers[h].pc = "decide"]
               ELSE BotAnswer(bot, h, "next", TRUE)
    /\ UNCHANGED <<mergeVars, riskVars, statusVars, moreVars, keys, ad, limiterVars, acqVars>>

\* a plausible slip: an off-by-one in the comparison
BotExceedsOffByOne(current) == current > maxRequests + 1

\* if (current > maxRequests)
BotExceeds(current) == current > maxRequests

\* the comparison: on to redis.ttl for the 429, or the headers and next()
BotDecide(h) ==
    /\ bot.handlers[h].pc = "decide"
    /\ bot' = IF BotExceeds(bot.handlers[h].current)
              THEN [bot EXCEPT !.handlers[h].pc = "ttl"]
              ELSE BotAnswer(bot, h, "next", FALSE)
    /\ UNCHANGED <<mergeVars, riskVars, statusVars, moreVars, keys, ad, limiterVars, acqVars>>

\* const ttl = await redis.ttl(key); return res.status(429).json(...)
BotTtl(h) ==
    /\ bot.handlers[h].pc = "ttl"
    /\ \E ok \in BOOLEAN :
        bot' = IF ok THEN BotAnswer(bot, h, "429", FALSE)
                     ELSE BotAnswer(bot, h, "next", TRUE)
    /\ UNCHANGED <<mergeVars, riskVars, statusVars, moreVars, keys, ad, limiterVars, acqVars>>

\* a tick of time in the bot's store: a key whose time is up is deleted
BotTick ==
    /\ \E u \in BotUsers : bot.ttl[u] > 0
    /\ bot' = [bot EXCEPT
                !.ttl = [u \in BotUsers |->
                            IF bot.ttl[u] = 1 THEN KeyAbsent
                            ELSE IF bot.ttl[u] > 1 THEN bot.ttl[u] - 1 ELSE bot.ttl[u]],
                !.count = [u \in BotUsers |-> IF bot.ttl[u] = 1 THEN 0 ELSE bot.count[u]],
                !.passed = [u \in BotUsers |-> IF bot.ttl[u] = 1 THEN 0 ELSE bot.passed[u]],
                !.handlers = [h \in BotHandlers |->
                            IF bot.ttl[bot.handlers[h].user] = 1
                            THEN [bot.handlers[h] EXCEPT !.fresh = FALSE]
                            ELSE bot.handlers[h]]]
    /\ UNCHANGED <<mergeVars, riskVars, statusVars, moreVars, keys, ad, limiterVars, acqVars>>

NextBot ==
    \/ \E h \in BotHandlers, u \in BotUsers : BotReceive(h, u)
    \/ \E h \in BotHandlers : BotIncr(h)
    \/ \E h \in BotHandlers : BotExpire(h)
    \/ \E h \in BotHandlers : BotDecide(h)
    \/ \E h \in BotHandlers : BotTtl(h)
    \/ BotTick

SpecBot == InitBot /\ [][NextBot]_vars

\* C22: per user and window at most maxRequests requests are passed on by the
\* limiter's decision: a request counted past the maximum is answered 429 and
\* not passed on, a request is passed on without a store error only when its
\* count is within the maximum, a store error passes the request on, and a
\* step of one user's request leaves the other users' counters alone.
C22_AtMostMaxPerUserAndWindow ==
    /\ [](/\ \A u \in BotUsers : bot.passed[u] <= maxRequests
          /\ bot.last.outcome = "429" => bot.last.current > maxRequests /\ ~bot.last.error
          /\ (bot.last.outcome = "next" /\ ~bot.last.error) =>
                bot.last.current \in 1..maxRequests
          /\ bot.last.error => bot.last.outcome = "next")
    /\ [][\A h \in BotHandlers :
            (bot.handlers[h].pc # "idle" /\ bot'.handlers[h].pc # bot.handlers[h].pc) =>
                /\ \A u \in BotUsers \ {bot.handlers[h].user} :
                        bot'.count[u] = bot.count[u] /\ bot'.ttl[u] = bot.ttl[u]
                /\ (bot.handlers[h].pc = "ttl" /\ bot'.last.outcome = "429") =>
                        bot.handlers[h].current > maxRequests]_vars

\* C22 witness: a user has had the maximum passed on in the running window
\* and the next request is answered 429, while the other user's count is
\* still within the maximum
C22_Witness ==
    /\ bot.last.outcome = "429"
    /\ bot.passed[bot.last.user] = maxRequests
    /\ bot.count[bot.last.user] = maxRequests + 1
    /\ \E u \in BotUsers \ {bot.last.user} : bot.count[u] = 1 /\ bot.passed[u] = 1

(***************************************************************************)
(* Claims about what one check costs and what a denial skips               *)
(***************************************************************************)
\* C23: a denied checkRateLimit is not rolled back: a call whose INCR reaches
\* the store raises the provider's counter by exactly one and no return,
\* allowed or denied, lowers it, so the counter equals the number of checks
\* made in the window and grows past the maximum in an exhausted window.
C23_DeniedCheckNotRolledBack ==
    /\ [](\A p \in Providers : rlCount[p] = checksInWindow[p])
    /\ [][\A c \in Callers :
            /\ (callers[c].pc = "incr" /\ callers'[c].pc # "incr" /\ callers'[c].served) =>
                    rlCount' = [rlCount EXCEPT ![callers[c].api] = @ + 1]
            /\ (callers[c].pc = "decide" /\ callers'[c].pc = "idle") =>
                    rlCount' = rlCount]_vars

\* C23 witness: the last call was served and denied, and the counter stands two
\* past the provider's maximum
C23_Witness ==
    /\ answer # <<>>
    /\ answer[1].served /\ ~answer[1].allowed
    /\ rlCount[answer[1].api] = limits[answer[1].api].max + 2
    /\ checksInWindow[answer[1].api] = limits[answer[1].api].max + 2

\* the steps of the current provider that follow an allowed check
AfterAllowedCheck == {"adapter", "cacheSet", "logGet", "logSet"}

\* C24: a provider that checkRateLimit denies is skipped: its adapter is not
\* invoked, nothing is written to the cache, no success or failure is
\* recorded in its statistics, and the acquisition goes on with the next
\* available provider, or ends the point, without an error response.
C24_DeniedProviderSkipped ==
    /\ [](rt.pc \in AfterAllowedCheck => rt.outcomes[CurrentProvider] # "denied")
    /\ [][(rt.pc = "check" /\ rt' # rt /\ ~answer[1].allowed) =>
            /\ rt'.outcomes[CurrentProvider] = "denied"
            /\ rt'.sources = rt.sources
            /\ cache' = cache /\ cacheTtl' = cacheTtl
            /\ stats' = stats
            /\ IF NextAvailable(rt.k) <= Len(providerPriority)
               THEN /\ rt'.pc = "cacheGet"
                    /\ rt'.k = NextAvailable(rt.k)
                    /\ rt'.i = rt.i
               ELSE /\ Len(rt'.results) = Len(rt.results) + 1
                    /\ rt'.pc \in {"waypoint", "done"}
            /\ rt'.response # <<>> => rt'.response[1].status = 200]_vars

\* C24 witness: meteoblue was denied for the point, nothing of it is in the
\* statistics, and aemet after it contributed the record of the point
C24_Witness ==
    /\ PointFinished
    /\ rt.outcomes["meteoblue"] = "denied"
    /\ stats["meteoblue"] = <<>>
    /\ rt.outcomes["aemet"] = "ok"
    /\ LastEntry.weather # <<>>
    /\ LastEntry.weather[1].primary = "aemet"

\* C25: on a cache hit the cached record is added with cached = true, neither
\* checkRateLimit nor the adapter is called for the provider (its counter is
\* unchanged), and the controller goes on with the next available provider:
\* every provider with an API key is processed for the point, hit or not.
C25_HitSkipsCheckAndAdapter ==
    /\ [](/\ rt.pc \in {"check"} \cup AfterAllowedCheck => rt.outcomes[CurrentProvider] # "hit"
          /\ PointFinished => EveryConfiguredProcessed)
    /\ [][(rt.pc = "cacheGet" /\ rt' # rt /\ rt'.outcomes[CurrentProvider] = "hit") =>
            /\ cache[CurrentKey] # <<>>
            /\ rt'.sources = Append(rt.sources, [provider |-> CurrentProvider,
                                                 data |-> JsonRoundTrip(cache[CurrentKey][1]),
                                                 cached |-> TRUE])
            /\ rlCount' = rlCount
            /\ callers' = callers
            /\ IF NextAvailable(rt.k) <= Len(providerPriority)
               THEN /\ rt'.pc = "cacheGet"
                    /\ rt'.k = NextAvailable(rt.k)
                    /\ rt'.i = rt.i
               ELSE Len(rt'.results) = Len(rt.results) + 1]_vars

\* C25 witness: meteoblue was taken from the cache without a check, and aemet
\* after it was checked and fetched; the point is fused from both
C25_Witness ==
    /\ PointFinished
    /\ rt.outcomes["meteoblue"] = "hit"
    /\ rlCount["meteoblue"] = 0
    /\ rt.outcomes["aemet"] = "ok"
    /\ rlCount["aemet"] = 1
    /\ LastEntry.weather # <<>>
    /\ LastEntry.weather[1].sources = <<"meteoblue", "aemet">>

\* the usage counters of a provider in the store, zero when the key is absent
NoCalls == [calls |-> 0, successes |-> 0, errors |-> 0]
StoredStats(s, p) == IF s[p] = <<>> THEN NoCalls ELSE s[p][1]

\* the counters with one more call, a success or a failure
OneMore(old, success) ==
    [calls |-> old.calls + 1,
     successes |-> old.successes + (IF success THEN 1 ELSE 0),
     errors |-> old.errors + (IF success THEN 0 ELSE 1)]

\* the record fetched is in the cache under the lookup key with the 30-minute TTL
WrittenToCache ==
    /\ cache' = [cache EXCEPT ![CurrentKey] = <<rt.fetched[1]>>]
    /\ cacheTtl' = [cacheTtl EXCEPT ![CurrentKey] = CacheTtlTicks]

\* a failed adapter call writes nothing to the cache, and logApiCall is run
\* once for the call: its write is followed by the next provider
FailureWritesNothing ==
    /\ (rt.pc = "adapter" /\ rt' # rt /\ rt'.pc = "logGet") => cache' = cache /\ ~rt'.success
    /\ (rt.pc \in {"logGet", "logSet"} /\ rt' # rt) => cache' = cache
    /\ (rt.pc = "logSet" /\ rt' # rt) => rt'.pc \in {"cacheGet", "waypoint", "done"}

\* C26 as stated: after a successful adapter call the record is written to the
\* cache under the lookup key with a 30-minute TTL and exactly one success is
\* recorded for the provider; after a failed one nothing is written to the
\* cache and exactly one failure is recorded.
C26_WrittenAndRecorded ==
    [][/\ (rt.pc = "cacheSet" /\ rt' # rt) => WrittenToCache
       /\ (rt.pc = "logSet" /\ rt' # rt) =>
            StoredStats(stats', CurrentProvider) =
                OneMore(StoredStats(stats, CurrentProvider), rt.success)
       /\ FailureWritesNothing]_vars

\* C26 amended: the record is written, and the success or failure recorded,
\* when the command reaches the store.  A setex that does not reach it leaves
\* the cache as it was; a logApiCall whose setex does not reach it records
\* nothing, and one whose get did not reach it stores its own call alone.
C26_WrittenAndRecordedWhenReached ==
    [][/\ (rt.pc = "cacheSet" /\ rt' # rt) =>
            \/ WrittenToCache
            \/ cache' = cache /\ cacheTtl' = cacheTtl
       /\ (rt.pc = "logSet" /\ rt' # rt) =>
            \/ stats' = stats
            \/ /\ rt.existing = stats[CurrentProvider]
               /\ StoredStats(stats', CurrentProvider) =
                    OneMore(StoredStats(stats, CurrentProvider), rt.success)
            \/ /\ rt.existing = <<>>
               /\ StoredStats(stats', CurrentProvider) =
                    OneMore(NoCalls, rt.success)
       /\ (rt.pc \in {"cacheSet", "logSet"} /\ rt' # rt /\ ~isConnected) =>
            cache' = cache /\ stats' = stats
       /\ FailureWritesNothing]_vars

\* C26 witness: meteoblue answered, its record is in the cache and one success
\* is recorded; aemet failed, nothing of it is in the cache and one failure
\* is recorded
C26_Witness ==
    /\ PointFinished
    /\ rt.outcomes["meteoblue"] = "ok"
    /\ cache[cacheKey("meteoblue", LastEntry.waypoint, LastEntry.timestamp)] # <<>>
    /\ stats["meteoblue"] = <<[calls |-> 1, successes |-> 1, errors |-> 0]>>
    /\ rt.outcomes["aemet"] = "failed"
    /\ cache[cacheKey("aemet", LastEntry.waypoint, LastEntry.timestamp)] = <<>>
    /\ stats["aemet"] = <<[calls |-> 1, successes |-> 0, errors |-> 1]>>

(***************************************************************************)
(* Claims about the calls one point makes and their order                  *)
(***************************************************************************)
\* getWeatherForPoint is running for a waypoint
InPoint == rt.pc \in {"cacheGet", "check"} \cup AfterAllowedCheck

\* the sum of a count over the providers
RECURSIVE SumOver(_, _)
SumOver(count, S) ==
    IF S = {} THEN 0
    ELSE LET p == CHOOSE x \in S : TRUE IN count[p] + SumOver(count, S \ {p})

\* C27: for one point, checkRateLimit and the adapter are each called at most
\* once per provider, checkRateLimit only for a provider with an API key that
\* missed the cache, the adapter only after an allowed check; a point causes
\* at most four adapter calls.
C27_AtMostOneCallPerProvider ==
    /\ [](rt.pc \notin {"none", "request"} =>
            /\ \A p \in Providers :
                /\ rt.checks[p] <= 1
                /\ rt.calls[p] <= rt.checks[p]
                /\ rt.checks[p] = 1 => apiKey[p] /\ rt.outcomes[p] # "hit"
            /\ SumOver(rt.calls, Providers) <= 4)
    /\ [][/\ (rt.pc = "cacheGet" /\ rt'.pc = "check") =>
                /\ apiKey[CurrentProvider]
                /\ rt'.lookup \in {"miss", "failed"}
                /\ rt'.lookup = "miss" => cache[CurrentKey] = <<>>
          /\ (rt.pc = "check" /\ rt'.pc = "adapter") => answer[1].allowed
          /\ rt'.pc = "adapter" => rt.pc \in {"check", "adapter"}]_vars

\* C27 witness: a point for which two providers were checked and one of them
\* was called, the other denied
C27_Witness ==
    /\ PointFinished
    /\ SumOver(rt.checks, Providers) = 2
    /\ SumOver(rt.calls, Providers) = 1
    /\ \E p \in Providers : rt.outcomes[p] = "denied"

\* the order the claim names, and the place of a provider in it
FixedOrder == <<"meteoblue", "aemet", "windy", "meteored">>
PlaceOf(p) == CHOOSE j \in 1..Len(FixedOrder) : FixedOrder[j] = p

\* C28: the providers of a point are processed one after the other in the
\* order meteoblue, aemet, windy, meteored: while one is being processed every
\* configured provider before it has its outcome and no provider after it has
\* been looked up, checked or called, so at most one adapter call of the
\* point is in flight.
C28_StrictlySequential ==
    /\ [](InPoint =>
            /\ \A p \in Providers :
                /\ (PlaceOf(p) < PlaceOf(CurrentProvider) /\ apiKey[p]) =>
                        rt.outcomes[p] \in {"hit", "denied", "ok", "failed"}
                /\ PlaceOf(p) > PlaceOf(CurrentProvider) =>
                        /\ rt.outcomes[p] = "none"
                        /\ rt.checks[p] = 0 /\ rt.calls[p] = 0
            /\ Cardinality({p \in Providers :
                                rt.calls[p] > 0 /\ rt.outcomes[p] = "none"}) <= 1)
    /\ [][(InPoint /\ rt'.pc \in {"cacheGet", "check"} \cup AfterAllowedCheck
                   /\ rt'.i = rt.i) =>
            PlaceOf(providerPriority[rt'.k]) >= PlaceOf(CurrentProvider)]_vars

\* C28 witness: aemet's adapter call is in flight after meteoblue's failed
C28_Witness ==
    /\ rt.pc = "adapter"
    /\ CurrentProvider = "aemet"
    /\ rt.outcomes["meteoblue"] = "failed"
    /\ rt.calls["meteoblue"] = 1 /\ rt.calls["aemet"] = 1

(***************************************************************************)
(* One call of a provider adapter: getWeatherForPoint(lat, lon, timestamp) *)
(***************************************************************************)
\* the upstream answer has no such field (undefined in the parsed JSON)
Absent == -997
\* the field is there but holds none of the members the adapter reads
\* ({} or [])
EmptyValue == -996

\* what the upstream answers for the two fields risk classification needs
UpstreamTemperatures == {Absent, EmptyValue, 0, 15}
UpstreamWindSpeeds == {Absent, EmptyValue, 0, 20}

\* the answers of the upstream: the HTTP outcome, AEMET's estado, whether
\* the body has the expected structure, and the two readings
UpstreamAnswers ==
    [http : {"ok", "error"}, estado : {200, 404}, format : BOOLEAN,
     temperature : UpstreamTemperatures, windSpeed : UpstreamWindSpeeds]

\* the points the adapters are called for
AdapterPoints == {Madrid, Paris}

\* provider.isAvailable() at the top of every getWeatherForPoint
isAvailable(configured) == configured

\* a plausible slip: the data URL is fetched whatever the first answer says
estadoOkAlways(estado) == TRUE

\* AemetProvider.getMunicipalityForecast: response.data.estado !== 200 throws
estadoOk(estado) == estado = 200

\* MeteoblueProvider.getValueAtIndex
getValueAtIndex(v) == IF v \in {Absent, EmptyValue} THEN Null ELSE v

\* WindyProvider.getParameterValue
getParameterValue(v) == IF v \in {Absent, EmptyValue} THEN Null ELSE v

\* WindyProvider.calculateWindSpeed: Math.round(Math.sqrt(u*u + v*v) * 3.6),
\* null when a component is missing
calculateWindSpeed(windU, windV) ==
    IF windU = Null \/ windV = Null THEN Null
    ELSE LET s == windU * windU + windV * windV
         IN  CHOOSE r \in 0..400 :
                /\ (r = 0 \/ (2 * r - 1) * (2 * r - 1) * 100 <= 5184 * s)
                /\ 5184 * s < (2 * r + 1) * (2 * r + 1) * 100

\* MeteoredProvider.extractTemperature: a number under forecast.temp, or an
\* object under forecast.temperature whose max and min are averaged
MeteoredTemperature(v) ==
    IF v = EmptyValue THEN NaN
    ELSE IF v = Absent \/ v = 0 THEN Null
    ELSE v

\* MeteoredProvider.extractWindSpeed: forecast.wind && forecast.wind.speed
MeteoredWindSpeed(v) == IF v \in {Absent, EmptyValue, 0} THEN Null ELSE v

\* AemetProvider.extractTemperature
AemetTemperature(v) ==
    IF v = Absent THEN Null
    ELSE IF v = EmptyValue THEN 20
    ELSE v

\* AemetProvider.extractWindSpeed
AemetWindSpeed(v) == IF v \in {Absent, EmptyValue} THEN 10 ELSE v

\* the temperature and windSpeed of weatherData in parseResponse
ParsedTemperature(p, v) ==
    CASE p = "meteoblue" -> getValueAtIndex(v)
      [] p = "windy"     -> getParameterValue(v)
      [] p = "meteored"  -> MeteoredTemperature(v)
      [] p = "aemet"     -> AemetTemperature(v)

ParsedWindSpeed(p, v) ==
    CASE p = "meteoblue" -> getValueAtIndex(v)
      [] p = "windy"     -> calculateWindSpeed(getParameterValue(v),
                                               IF v = Absent THEN Null ELSE 0)
      [] p = "meteored"  -> MeteoredWindSpeed(v)
      [] p = "aemet"     -> AemetWindSpeed(v)

\* whether parseResponse throws: the structure check of every adapter and
\* the check of the critical fields, which only MeteoblueProvider has
ParseThrows(p, up) ==
    \/ ~up.format
    \/ /\ p = "meteoblue"
       /\ \/ ParsedTemperature(p, up.temperature) = Null
          \/ ParsedWindSpeed(p, up.windSpeed) = Null

InitAdapter ==
    /\ InitMore
    /\ mSources = <<>>
    /\ mResult = <<>>
    /\ InitStore
    /\ InitCallers
    /\ InitQueries
    /\ apiKey = [p \in Providers |-> TRUE]
    /\ rt = NoRoute
    /\ keys = NoKeys
    /\ bot = NoBot
    /\ \E p \in Providers, configured \in BOOLEAN, point \in AdapterPoints,
          up \in UpstreamAnswers :
            ad = [pc |-> "invoked", provider |-> p, configured |-> configured,
                  point |-> point, upstream |-> up, calls |-> 0,
                  temperature |-> Null, windSpeed |-> Null]

\* getWeatherForPoint up to the first await
AdInvoke ==
    /\ ad.pc = "invoked"
    /\ ad' = [ad EXCEPT !.pc =
                IF ~isAvailable(ad.configured) THEN "thrown"
                ELSE IF ~Covers(ad.provider, ad.point) THEN "thrown"
                ELSE "call"]
    /\ UNCHANGED <<mergeVars, riskVars, statusVars, moreVars, keys, bot, limiterVars, acqVars>>

\* await axios.get / axios.post: the upstream call of the adapter
AdCall ==
    /\ ad.pc = "call"
    /\ ad' = [ad EXCEPT !.calls = @ + 1,
                        !.pc = IF ad.upstream.http = "error" THEN "thrown"
                               ELSE IF ad.provider # "aemet" THEN "parse"
                               ELSE IF estadoOk(ad.upstream.estado) THEN "dataCall"
                               ELSE "thrown"]
    /\ UNCHANGED <<mergeVars, riskVars, statusVars, moreVars, keys, bot, limiterVars, acqVars>>

\* AemetProvider.getMunicipalityForecast: await axios.get(response.data.datos)
AdDataCall ==
    /\ ad.pc = "dataCall"
    /\ \E ok \in BOOLEAN :
        ad' = [ad EXCEPT !.calls = @ + 1,
                         !.pc = IF ok THEN "parse" ELSE "thrown"]
    /\ UNCHANGED <<mergeVars, riskVars, statusVars, moreVars, keys, bot, limiterVars, acqVars>>

\* return this.parseResponse(response.data, timestamp)
AdParse ==
    /\ ad.pc = "parse"
    /\ ad' = IF ParseThrows(ad.provider, ad.upstream)
             THEN [ad EXCEPT !.pc = "thrown"]
             ELSE [ad EXCEPT !.pc = "returned",
                             !.temperature =
                                ParsedTemperature(ad.provider, ad.upstream.temperature),
                             !.windSpeed =
                                ParsedWindSpeed(ad.provider, ad.upstream.windSpeed)]
    /\ UNCHANGED <<mergeVars, riskVars, statusVars, moreVars, keys, bot, limiterVars, acqVars>>

NextAdapter == AdInvoke \/ AdCall \/ AdDataCall \/ AdParse

SpecAdapter == InitAdapter /\ [][NextAdapter]_vars

\* the upstream answer carries a value for the field
HasValue(v) == v \notin {Absent, EmptyValue}

\* C29: an adapter returns a record only when the upstream answer carries
\* temperature and wind speed, and the record's temperature and windSpeed are
\* then non-null values.
C29_FailsWithoutCriticalFields ==
    ad.pc = "returned" =>
        /\ HasValue(ad.upstream.temperature)
        /\ HasValue(ad.upstream.windSpeed)
        /\ ad.temperature \notin {Null, NaN}
        /\ ad.windSpeed \notin {Null, NaN}

\* the same for MeteoblueProvider alone, the adapter that checks the fields
C29_MeteoblueFailsWithoutCriticalFields ==
    (ad.pc = "returned" /\ ad.provider = "meteoblue") =>
        /\ HasValue(ad.upstream.temperature)
        /\ HasValue(ad.upstream.windSpeed)
        /\ ad.temperature \notin {Null, NaN}
        /\ ad.windSpeed \notin {Null, NaN}

\* the adapter call is over
AdFinished == ad.pc \in {"returned", "thrown"}

\* C30 as stated: a finished adapter call has issued exactly one upstream
\* call when the provider is configured and the point is in coverage, and
\* none otherwise.
C30_ExactlyOneUpstreamCall ==
    AdFinished =>
        ad.calls = IF ad.configured /\ Covers(ad.provider, ad.point) THEN 1 ELSE 0

\* C30 (amended): meteoblue, windy and meteored issue exactly one upstream
\* call when configured; aemet, configured and asked for a point in Spanish
\* territory, issues one call and, only when that call answers with estado
\* 200, a second one for the data URL; no adapter issues a call when it is
\* not configured or the point is outside its coverage.
C30_UpstreamCallsPerInvocation ==
    /\ ad.pc # "none" => ad.calls <= 2
    /\ AdFinished =>
        ad.calls =
            IF ~(ad.configured /\ Covers(ad.provider, ad.point)) THEN 0
            ELSE IF ad.provider = "aemet" /\ ad.upstream.http = "ok"
                    /\ ad.upstream.estado = 200 THEN 2
            ELSE 1

\* C30 witness: aemet returned a record for Madrid after two upstream calls
C30_Witness ==
    /\ ad.pc = "returned"
    /\ ad.provider = "aemet"
    /\ ad.point = Madrid
    /\ ad.calls = 2

(***************************************************************************)
(* Claims about points outside the territory of the regional provider      *)
(***************************************************************************)
\* the waypoint getWeatherForPoint has just finished
FinishedPoint == rt.body.list[IF rt.pc = "waypoint" THEN rt.i - 1 ELSE rt.i]

\* the waypoint getWeatherForPoint is running for
CurrentPoint == rt.body.list[rt.i]

\* C31: for a point outside the bounding box of Spanish territory the AEMET
\* adapter throws without an upstream call, so aemet contributes nothing for
\* the point, and the acquisition goes on: when the point is finished every
\* configured provider after aemet has been processed.
C31_FailsBeforeUpstreamCall ==
    /\ [](InPoint /\ ~isSpanishTerritory(CurrentPoint) =>
            /\ ~rt.upstream["aemet"]
            /\ rt.outcomes["aemet"] \in {"none", "failed", "denied"})
    /\ [](PointFinished /\ ~isSpanishTerritory(FinishedPoint) =>
            /\ ~rt.upstream["aemet"]
            /\ \A p \in Providers : apiKey[p] => rt.outcomes[p] # "none")
    /\ [][(/\ rt.pc = "adapter"
           /\ CurrentProvider = "aemet"
           /\ ~isSpanishTerritory(CurrentPoint)
           /\ rt' # rt)
          => (/\ rt'.outcomes["aemet"] = "failed"
              /\ rt'.pc = "logGet"
              /\ rt'.sources = rt.sources)]_vars

\* C31 witness: a point in Paris finished with aemet failed without an
\* upstream call and meteored, the next provider, answering
C31_Witness ==
    /\ PointFinished
    /\ FinishedPoint = W(Paris, 0)
    /\ rt.outcomes["aemet"] = "failed"
    /\ ~rt.upstream["aemet"]
    /\ rt.outcomes["meteored"] = "ok"
    /\ rt.upstream["meteored"]

\* C32: while a point outside Spanish territory is acquired the rate-limit
\* counter of aemet does not grow.
C32_NoBudgetOutsideCoverage ==
    [][(InPoint /\ ~isSpanishTerritory(CurrentPoint))
        => rlCount'["aemet"] <= rlCount["aemet"]]_vars

(***************************************************************************)
(* parseResponse of the time-series adapters: the slot closest to the      *)
(* target timestamp and the confidence of the record.  Times in minutes.   *)
(***************************************************************************)
TimeSeriesProviders == {"meteoblue", "windy", "meteored"}

\* the most slots an upstream answer has
MaxSlots == 3

\* the times of the slots of an upstream answer and the target timestamps
SlotTimes == {-60, 60, 61, 180, 181, 360, 361, 720, 721, 1440, 1441}
TargetTimes == {0, 60}

SlotLists == UNION {[1..n -> SlotTimes] : n \in 1..MaxSlots}

\* Math.abs(times[i].getTime() - targetTime.getTime())
Gap(t, target) == IF t >= target THEN t - target ELSE target - t

\* a plausible slip: a later slot at the same distance replaces the earlier
CloserOrEqual(diff, minDiff) == diff <= minDiff

\* if (diff < minDiff)
Closer(diff, minDiff) == diff < minDiff

\* the loop of parseResponse from slot i on, with the closest so far
RECURSIVE ClosestFrom(_, _, _, _)
ClosestFrom(times, target, i, best) ==
    IF i > Len(times) THEN best
    ELSE LET diff == Gap(times[i], target)
         IN  IF Closer(diff, best.minDiff)
             THEN ClosestFrom(times, target, i + 1, [index |-> i, minDiff |-> diff])
             ELSE ClosestFrom(times, target, i + 1, best)

\* closestIndex and minDiff of parseResponse: slot 1 to begin with, then the
\* loop over the slots after it (MeteoredProvider loops over slot 1 again)
Closest(p, times, target) ==
    ClosestFrom(times, target, IF p = "meteored" THEN 1 ELSE 2,
                [index |-> 1, minDiff |-> Gap(times[1], target)])

\* MeteoblueProvider.calculateConfidence(timeDifference), in hundredths
MeteoblueConfidence(gap) ==
    IF gap <= 1 * HourMinutes THEN 95
    ELSE IF gap <= 3 * HourMinutes THEN 85
    ELSE IF gap <= 6 * HourMinutes THEN 75
    ELSE IF gap <= 12 * HourMinutes THEN 65
    ELSE 50

\* WindyProvider.calculateConfidence(timeDifference)
WindyConfidence(gap) ==
    IF gap <= 1 * HourMinutes THEN 90
    ELSE IF gap <= 3 * HourMinutes THEN 80
    ELSE IF gap <= 6 * HourMinutes THEN 70
    ELSE IF gap <= 12 * HourMinutes THEN 60
    ELSE 45

\* MeteoredProvider.calculateConfidence(timeDifference)
MeteoredConfidence(gap) ==
    IF gap <= 2 * HourMinutes THEN 75
    ELSE IF gap <= 6 * HourMinutes THEN 65
    ELSE IF gap <= 12 * HourMinutes THEN 55
    ELSE IF gap <= 24 * HourMinutes THEN 45
    ELSE 35

\* confidence: this.calculateConfidence(minDiff)
AdapterConfidence(p, gap) ==
    CASE p = "meteoblue" -> MeteoblueConfidence(gap)
      [] p = "windy"     -> WindyConfidence(gap)
      [] p = "meteored"  -> MeteoredConfidence(gap)

InitSlots ==
    /\ InitMore
    /\ mSources = <<>>
    /\ mResult = <<>>
    /\ InitStore
    /\ InitCallers
    /\ InitQueries
    /\ apiKey = [p \in Providers |-> TRUE]
    /\ rt = NoRoute
    /\ keys = NoKeys
    /\ bot = NoBot
    /\ \E p \in TimeSeriesProviders, times \in SlotLists, target \in TargetTimes :
            ad = [pc |-> "response", provider |-> p, times |-> times, target |-> target]

\* parseResponse(response.data, timestamp) up to weatherData
ParseSlots ==
    /\ ad.pc = "response"
    /\ LET c == Closest(ad.provider, ad.times, ad.target)
       IN  ad' = [pc |-> "parsed", provider |-> ad.provider, times |-> ad.times,
                  target |-> ad.target, closestIndex |-> c.index, minDiff |-> c.minDiff,
                  confidence |-> AdapterConfidence(ad.provider, c.minDiff)]
    /\ UNCHANGED <<mergeVars, riskVars, statusVars, moreVars, keys, bot, limiterVars, acqVars>>

NextSlots == ParseSlots

SpecSlots == InitSlots /\ [][NextSlots]_vars

\* the gaps the bands are compared on
BandGaps == {Gap(t, target) : t \in SlotTimes, target \in TargetTimes}

\* C33: parseResponse of meteoblue, windy and meteored uses the slot with the
\* least absolute gap to the target, the earliest one on ties; the
\* confidence is that of the gap, lies in [0, 1], never grows with the gap,
\* and for meteoblue is 0.95 up to 1 h, 0.85 up to 3 h, 0.75 up to 6 h, 0.65
\* up to 12 h and 0.50 beyond.
C33_ClosestSlotAndConfidence ==
    ad.pc = "parsed" =>
        LET gaps == [i \in 1..Len(ad.times) |-> Gap(ad.times[i], ad.target)] IN
        /\ \A i \in 1..Len(ad.times) : ad.minDiff <= gaps[i]
        /\ gaps[ad.closestIndex] = ad.minDiff
        /\ \A i \in 1..Len(ad.times) : gaps[i] = ad.minDiff => ad.closestIndex <= i
        /\ ad.confidence >= 0 /\ ad.confidence <= 100
        /\ \A g \in BandGaps :
            /\ g <= ad.minDiff => AdapterConfidence(ad.provider, g) >= ad.confidence
            /\ g >= ad.minDiff => AdapterConfidence(ad.provider, g) <= ad.confidence
        /\ ad.provider = "meteoblue" =>
            ad.confidence = IF ad.minDiff <= 60 THEN 95
                            ELSE IF ad.minDiff <= 180 THEN 85
                            ELSE IF ad.minDiff <= 360 THEN 75
                            ELSE IF ad.minDiff <= 720 THEN 65
                            ELSE 50

\* C33 witness: the second and third of three slots are equally close, one
\* hour from the target, and the second is used
C33_Witness ==
    /\ ad.pc = "parsed"
    /\ ad.times = <<180, -60, 60>>
    /\ ad.target = 0
    /\ ad.closestIndex = 2
    /\ ad.minDiff = 60

(***************************************************************************)
(* GPXParser.extractWaypoints: sampling the points of a track              *)
(***************************************************************************)
\* const maxWaypoints = 15
maxWaypoints == 15

\* the longest track sampled
MaxTrackPoints == 46

\* Math.max(1, Math.floor(totalPoints / maxWaypoints))
sampleInterval(totalPoints) ==
    IF totalPoints \div maxWaypoints >= 1 THEN totalPoints \div maxWaypoints ELSE 1

InitGpx ==
    /\ mSources = <<>>
    /\ mResult = <<>>
    /\ InitStore
    /\ InitCallers
    /\ InitQueries
    /\ apiKey = [p \in Providers |-> TRUE]
    /\ rt = NoRoute
    /\ keys = NoKeys
    /\ bot = NoBot
    /\ ad = NoAdapterCall
    /\ lg = NoLoggers
    /\ preq = NoPointRequest
    /\ redis = NoClient
    /\ \E n \in 1..MaxTrackPoints :
        gpx = [pc |-> "loop", totalPoints |-> n, i |-> 0, waypoints |-> <<>>]

\* one turn of for (let i = 0; i < totalPoints; i += sampleInterval): the
\* point at index i is pushed; the waypoints are kept as the indices of
\* their points
GpxSample ==
    /\ gpx.pc = "loop"
    /\ gpx' = IF gpx.i < gpx.totalPoints
              THEN [gpx EXCEPT !.waypoints = Append(@, gpx.i),
                               !.i = @ + sampleInterval(gpx.totalPoints)]
              ELSE [gpx EXCEPT !.pc = "final"]
    /\ UNCHANGED <<mergeVars, riskVars, statusVars, keys, bot, ad, lg, preq, redis, limiterVars, acqVars>>

\* the last point is pushed when the loop did not reach it, and the result
\* is returned
GpxFinal ==
    /\ gpx.pc = "final"
    /\ gpx' = IF /\ gpx.totalPoints > 1
                 /\ (gpx.totalPoints - 1) % sampleInterval(gpx.totalPoints) # 0
              THEN [gpx EXCEPT !.pc = "returned",
                               !.waypoints = Append(@, gpx.totalPoints - 1)]
              ELSE [gpx EXCEPT !.pc = "returned"]
    /\ UNCHANGED <<mergeVars, riskVars, statusVars, keys, bot, ad, lg, preq, redis, limiterVars, acqVars>>

NextGpx == GpxSample \/ GpxFinal

SpecGpx == InitGpx /\ [][NextGpx]_vars

\* C34: extractWaypoints returns at most 15 waypoints for every track of one
\* or more points.
C34_AtMostFifteenWaypoints ==
    gpx.pc = "returned" => Len(gpx.waypoints) <= 15

\* what does hold: tracks of up to 15 points are returned whole, and no track
\* gives more than twice maxWaypoints
C34_SampledWaypoints ==
    gpx.pc = "returned" =>
        /\ gpx.totalPoints <= maxWaypoints => Len(gpx.waypoints) = gpx.totalPoints
        /\ Len(gpx.waypoints) < 2 * maxWaypoints
        /\ gpx.waypoints[1] = 0
        /\ gpx.waypoints[Len(gpx.waypoints)] = gpx.totalPoints - 1

(***************************************************************************)
(* The life of the store client: new RedisClient() at process start, the   *)
(* events of its ioredis instance, the operations of the requests          *)
(***************************************************************************)
\* the operations the claim names
StoreOps == {"get", "set", "incr", "expire"}

\* the store operations of the requests are counted up to this many; the
\* requests keep coming
MaxStoreOps == 4

\* a count that stops at MaxStoreOps
CountedUp(n) == IF n < MaxStoreOps THEN n + 1 ELSE n

\* RedisClient.isAvailable(): this.client && this.isConnected (the
\* constructor sets this.client)
ClientAvailable == redis.status # "none" /\ isConnected

\* after the module is loaded: the constructor ran connect(), which creates
\* the ioredis instance with lazyConnect: true, so the instance waits for
\* connect() or for its first command before it opens the connection, and
\* registers the handlers; isConnected is false
InitClient ==
    /\ mSources = <<>>
    /\ mResult = <<>>
    /\ InitStore
    /\ InitCallers
    /\ InitQueries
    /\ apiKey = [p \in Providers |-> TRUE]
    /\ rt = NoRoute
    /\ keys = NoKeys
    /\ bot = NoBot
    /\ ad = NoAdapterCall
    /\ gpx = NoTrack
    /\ lg = NoLoggers
    /\ preq = NoPointRequest
    /\ redis = [status |-> "wait", quitting |-> FALSE,
                sent |-> 0, fallbacks |-> 0, last |-> ""]

\* RedisClient.get / set / incr / expire called by a request: the command is
\* sent through the instance when isAvailable(), otherwise the fallback is
\* returned and the instance is not touched
ClientOp ==
    /\ redis.status # "none"
    /\ \E op \in StoreOps :
        redis' = IF ClientAvailable
                 THEN [redis EXCEPT !.sent = CountedUp(@), !.last = op]
                 ELSE [redis EXCEPT !.fallbacks = CountedUp(@), !.last = op]
    /\ UNCHANGED <<mergeVars, riskVars, statusVars, keys, bot, ad, gpx, lg, preq,
                   limiterVars, acqVars>>

\* RedisClient.disconnect(): await this.client.quit(), not guarded by
\* isAvailable(); QUIT is the first command a waiting instance is sent, so
\* the instance opens the connection to send it
ClientDisconnect ==
    /\ redis.status \in {"wait", "connecting", "ready"}
    /\ ~redis.quitting
    /\ redis' = [redis EXCEPT !.quitting = TRUE,
                              !.status = IF @ = "wait" THEN "connecting" ELSE @]
    /\ UNCHANGED <<mergeVars, riskVars, statusVars, keys, bot, ad, gpx, lg, preq,
                   limiterVars, acqVars>>

\* this.client.on('connect'): the connection the instance was opening is up
IoConnect ==
    /\ redis.status = "connecting"
    /\ redis' = [redis EXCEPT !.status = "ready"]
    /\ isConnected' = TRUE
    /\ UNCHANGED <<mergeVars, riskVars, statusVars, keys, bot, ad, gpx, lg, preq,
                   rlCount, rlTtl, callers, grantsInWindow, checksInWindow, checksLeft,
                   answer, acqVars>>

\* this.client.on('close'): after QUIT the connection ends for good,
\* otherwise the instance reconnects
IoClose ==
    /\ redis.status = "ready"
    /\ redis' = [redis EXCEPT !.status = IF redis.quitting THEN "end" ELSE "connecting"]
    /\ isConnected' = FALSE
    /\ UNCHANGED <<mergeVars, riskVars, statusVars, keys, bot, ad, gpx, lg, preq,
                   rlCount, rlTtl, callers, grantsInWindow, checksInWindow, checksLeft,
                   answer, acqVars>>

NextClient == ClientOp \/ ClientDisconnect \/ IoConnect \/ IoClose

SpecClient == InitClient /\ [][NextClient]_vars

\* the store is reachable and the requests keep coming: a connection that is
\* being opened comes up, and a pending operation is carried out; shutdown
\* and the loss of the connection are not forced
FairSpecClient ==
    /\ SpecClient
    /\ WF_vars(IoConnect)
    /\ WF_vars(ClientOp)

\* C35: after process start the store client eventually is connected
\* (isAvailable() is true).
C35_EventuallyConnected == <>ClientAvailable

\* what holds instead: as long as nobody calls disconnect() the instance
\* keeps waiting, no command is sent and every operation gets the fallback
C35_WaitsForFirstCommand ==
    (redis.status # "none" /\ ~redis.quitting) =>
        /\ redis.status = "wait"
        /\ ~ClientAvailable
        /\ redis.sent = 0

(***************************************************************************)
(* RateLimiter.logApiCall called by concurrent requests for one provider   *)
(* and hour, the store available                                           *)
(***************************************************************************)
\* the requests that log concurrently, and the calls they make in the hour
NumLoggers == 2
MaxLogCalls == 3
Loggers == 1..NumLoggers

IdleLogger == [pc |-> "idle", success |-> FALSE, existing |-> <<>>]

InitLog ==
    /\ mSources = <<>>
    /\ mResult = <<>>
    /\ InitStore
    /\ InitCallers
    /\ InitQueries
    /\ apiKey = [p \in Providers |-> TRUE]
    /\ rt = NoRoute
    /\ keys = NoKeys
    /\ bot = NoBot
    /\ ad = NoAdapterCall
    /\ gpx = NoTrack
    /\ preq = NoPointRequest
    /\ redis = NoClient
    /\ lg = [pc |-> "logging", stored |-> <<>>, left |-> MaxLogCalls, invoked |-> 0, returned |-> 0,
             procs |-> [l \in Loggers |-> IdleLogger]]

\* rateLimiter.logApiCall(providerName, success) is called (index.js:241 and
\* 247) and builds its own stats
LogCall(l) ==
    /\ lg.pc # "none"
    /\ lg.left > 0
    /\ lg.procs[l].pc = "idle"
    /\ \E success \in BOOLEAN :
        lg' = [lg EXCEPT !.left = @ - 1, !.invoked = @ + 1,
                         !.procs[l] = [pc |-> "get", success |-> success,
                                       existing |-> <<>>]]
    /\ UNCHANGED <<mergeVars, riskVars, statusVars, keys, bot, ad, gpx, preq, redis,
                   limiterVars, acqVars>>

\* const existing = await RedisClient.get(key)
LogRead(l) ==
    /\ lg.pc # "none"
    /\ lg.procs[l].pc = "get"
    /\ lg' = [lg EXCEPT !.procs[l].pc = "setex", !.procs[l].existing = lg.stored]
    /\ UNCHANGED <<mergeVars, riskVars, statusVars, keys, bot, ad, gpx, preq, redis,
                   limiterVars, acqVars>>

\* await RedisClient.setex(key, 86400, JSON.stringify(stats))
LogWrite(l) ==
    /\ lg.pc # "none"
    /\ lg.procs[l].pc = "setex"
    /\ lg' = [lg EXCEPT !.stored = <<NewStats(lg.procs[l].success, lg.procs[l].existing)>>,
                        !.returned = @ + 1,
                        !.procs[l] = IdleLogger]
    /\ UNCHANGED <<mergeVars, riskVars, statusVars, keys, bot, ad, gpx, preq, redis,
                   limiterVars, acqVars>>

NextLog == \E l \in Loggers : LogCall(l) \/ LogRead(l) \/ LogWrite(l)

SpecLog == InitLog /\ [][NextLog]_vars

\* C36: the stored statistics of a provider and hour have calls = successes +
\* errors, and once the logApiCall calls made so far have returned, calls is
\* their number.
C36_NoUsageLost ==
    (lg.pc # "none" /\ lg.stored # <<>>) =>
        /\ lg.stored[1].calls = lg.stored[1].successes + lg.stored[1].errors
        /\ lg.returned = lg.invoked => lg.stored[1].calls = lg.invoked

\* the part that holds: calls = successes + errors, and calls never exceeds
\* the number of calls that returned
C36_CallsAreSuccessesPlusErrors ==
    (lg.pc # "none" /\ lg.stored # <<>>) =>
        /\ lg.stored[1].calls = lg.stored[1].successes + lg.stored[1].errors
        /\ lg.stored[1].calls <= lg.returned
        /\ lg.stored[1].calls >= 1

\* C37: the fused record of a point has a `sources` list of 1 to 4 distinct
\* provider names, each a provider with an API key that contributed a record
\* for the point, in descending priority (meteoblue, aemet, windy, meteored),
\* and `primary` is its first element.
C37_SourcesOfFusedRecord ==
    (PointFinished /\ LastEntry.weather # <<>>) =>
        LET fused == LastEntry.weather[1]
            n == Len(fused.sources)
        IN  /\ n >= 1 /\ n <= 4
            /\ \A i \in 1..n :
                /\ fused.sources[i] \in Providers
                /\ apiKey[fused.sources[i]]
                /\ rt.outcomes[fused.sources[i]] \in {"hit", "ok"}
            /\ \A i, j \in 1..n :
                i < j => /\ fused.sources[i] # fused.sources[j]
                         /\ PlaceOf(fused.sources[i]) < PlaceOf(fused.sources[j])
            /\ fused.primary = fused.sources[1]

\* C37 witness: a fused record from two providers, the first taken from the
\* cache and the second fetched
C37_Witness ==
    /\ PointFinished
    /\ LastEntry.weather # <<>>
    /\ LastEntry.weather[1].sources = <<"meteoblue", "aemet">>
    /\ LastEntry.weather[1].primary = "meteoblue"
    /\ rt.outcomes["meteoblue"] = "hit"
    /\ rt.outcomes["aemet"] = "ok"

(***************************************************************************)
(* POST /weather-for-point                                                 *)
(***************************************************************************)
\* the values of lat and of lon in a request body: missing, null, or a
\* number in 1/10000 degree (the equator and the Greenwich meridian among them)
BodyLats == {Absent, Null, 0, Madrid.lat, Paris.lat, -Madrid.lat}
BodyLons == {Absent, Null, 0, Madrid.lon, Paris.lon, CastellonEast.lon}
BodyTimestamps == {Absent, 0, 60}

\* !x for a value of the body: missing, null and the number 0 are falsy
Falsy(x) == x \in {Absent, Null, 0}

InitPoint ==
    /\ mSources = <<>>
    /\ mResult = <<>>
    /\ InitStore
    /\ InitCallers
    /\ InitQueries
    /\ apiKey = [p \in Providers |-> TRUE]
    /\ rt = NoRoute
    /\ keys = NoKeys
    /\ bot = NoBot
    /\ ad = NoAdapterCall
    /\ gpx = NoTrack
    /\ lg = NoLoggers
    /\ redis = NoClient
    /\ \E lat \in BodyLats, lon \in BodyLons, timestamp \in BodyTimestamps :
        preq = [pc |-> "received", lat |-> lat, lon |-> lon, timestamp |-> timestamp,
                targetTimestamp |-> Absent, status |-> 0, error |-> ""]

\* const { lat, lon, timestamp } = req.body; if (!lat || !lon) return 400;
\* otherwise targetTimestamp and the call of getWeatherForPoint
PointValidate ==
    /\ preq.pc = "received"
    /\ preq' = IF Falsy(preq.lat) \/ Falsy(preq.lon)
               THEN [preq EXCEPT !.pc = "answered", !.status = 400,
                                 !.error = "Coordenadas requeridas"]
               ELSE [preq EXCEPT !.pc = "acquiring",
                                 !.targetTimestamp =
                                    IF Falsy(preq.timestamp) THEN Now ELSE preq.timestamp]
    /\ UNCHANGED <<mergeVars, riskVars, statusVars, keys, bot, ad, gpx, lg, redis,
                   limiterVars, acqVars>>

\* await getWeatherForPoint({ lat, lon }, targetTimestamp) returns the fused
\* record (res.json) or throws (500)
PointAnswer ==
    /\ preq.pc = "acquiring"
    /\ \E fused \in BOOLEAN :
        preq' = IF fused
                THEN [preq EXCEPT !.pc = "answered", !.status = 200]
                ELSE [preq EXCEPT !.pc = "answered", !.status = 500,
                                  !.error = "Error obteniendo datos meteorologicos"]
    /\ UNCHANGED <<mergeVars, riskVars, statusVars, keys, bot, ad, gpx, lg, redis,
                   limiterVars, acqVars>>

NextPoint == PointValidate \/ PointAnswer

SpecPoint == InitPoint /\ [][NextPoint]_vars

\* the body carries a number for the field
IsCoordinate(x) == x \notin {Absent, Null}

\* C38: a point request is answered with the coordinates-required error only
\* when lat or lon is missing; a request with numeric lat and lon, 0
\* included, goes on to the acquisition of the point.
C38_RejectedOnlyWhenMissing ==
    /\ (preq.pc = "answered" /\ preq.status = 400) =>
            ~(IsCoordinate(preq.lat) /\ IsCoordinate(preq.lon))
    /\ (preq.pc = "answered" /\ IsCoordinate(preq.lat) /\ IsCoordinate(preq.lon)) =>
            preq.status \in {200, 500}

\* what holds: a request is rejected exactly when lat or lon is missing,
\* null or 0
C38_RejectedWhenFalsy ==
    preq.pc = "answered" =>
        ((preq.status = 400) <=> (Falsy(preq.lat) \/ Falsy(preq.lon)))

====
